---- MODULE Spec2Model ----
(***************************************************************************)
(* waysnip: the selection rectangle (src/src/selection.rs) and the canvas  *)
(* controllers that drive it (src/src/canvas.rs).                          *)
(*                                                                         *)
(* Coordinates are f32 in the source.  The model keeps them as integers    *)
(* counted in 1/Unit of a pixel: the model value v stands for the f32      *)
(* value v / Unit.  On such values (small dyadic fractions) f32 addition,  *)
(* subtraction, negation, max, min and comparison are exact, so they are   *)
(* the integer operations here; f32::round is Round below.                 *)
(***************************************************************************)
EXTENDS Integers, Sequences, FiniteSets, TLC

\* Resolution of the coordinates: model units per pixel.
Unit == 2

\* The pointer grid has (MaxGX + 1) x (MaxGY + 1) positions.
MaxGX == 3
MaxGY == 3

Px(n) == n * Unit

HANDLE_SIZE == Px(14)
EDGE_GRAB_WIDTH == Px(8)
MIN_SIZE == Px(20)

Abs(v) == IF v >= 0 THEN v ELSE 0 - v

\* f32::max, f32::min (no NaN arises from the arithmetic modelled here)
Max(a, b) == IF a >= b THEN a ELSE b
Min(a, b) == IF a <= b THEN a ELSE b
Least(S) == CHOOSE m \in S : \A n \in S : m <= n
Greatest(S) == 0 - Least({0 - n : n \in S})

\* f32::round followed by `as i32`: the nearest whole pixel, halves away from zero
RoundMag(v) == (2 * v + Unit) \div (2 * Unit)
Round(v) == IF v >= 0 THEN RoundMag(v) ELSE 0 - RoundMag(0 - v)

\* Option<T>: None is the empty sequence, Some(v) the one-element sequence
None == << >>
Some(v) == << v >>
IsSome(o) == Len(o) = 1
Unwrap(o) == o[1]

(***************************************************************************)
(* Rect                                                                    *)
(***************************************************************************)
Rect(x, y, width, height) == [x |-> x, y |-> y, width |-> width, height |-> height]

\* Mutant of Normalized: only a negative width is flipped
NormalizedWidthOnly(r) ==
    IF r.width < 0 THEN Rect(r.x + r.width, r.y, 0 - r.width, r.height) ELSE r

\* Mutant of Normalized: the sizes change sign, the corner stays
NormalizedSizesOnly(r) == Rect(r.x, r.y, Abs(r.width), Abs(r.height))

Normalized(r) ==
    LET xw == IF r.width < 0 THEN <<r.x + r.width, 0 - r.width>> ELSE <<r.x, r.width>>
        yh == IF r.height < 0 THEN <<r.y + r.height, 0 - r.height>> ELSE <<r.y, r.height>>
    IN  Rect(xw[1], yh[1], xw[2], yh[2])

Contains(r, px, py) ==
    LET norm == Normalized(r)
    IN  /\ px >= norm.x
        /\ px <= norm.x + norm.width
        /\ py >= norm.y
        /\ py <= norm.y + norm.height

Right(r) == r.x + r.width

Bottom(r) == r.y + r.height

\* Mutant of EnforceMinSize: a small rect is left small
EnforceMinSizeOmitted(v) == v

\* The minimum-size step of constrain (lines 159-160)
EnforceMinSize(v) == Max(v, MIN_SIZE)

\* Mutant of ShiftIntoScreen: the overrunning rect is left where it is
ShiftIntoScreenOmitted(origin, size, bound) == origin

\* The shift of an origin whose rect overruns the screen bound (lines 166-171)
ShiftIntoScreen(origin, size, bound) == IF origin + size > bound THEN bound - size ELSE origin

\* Mutant of Constrain: a rect that overruns the screen is cut, not shifted
ConstrainCutting(r, screen_width, screen_height) ==
    LET n  == Normalized(r)
        w1 == EnforceMinSize(n.width)
        h1 == EnforceMinSize(n.height)
        x1 == Min(Max(n.x, 0), screen_width)
        y1 == Min(Max(n.y, 0), screen_height)
    IN  Rect(x1, y1, Min(w1, screen_width - x1), Min(h1, screen_height - y1))

Constrain(r, screen_width, screen_height) ==
    LET n  == Normalized(r)
        w1 == EnforceMinSize(n.width)
        h1 == EnforceMinSize(n.height)
        x1 == Max(n.x, 0)
        y1 == Max(n.y, 0)
        x2 == ShiftIntoScreen(x1, w1, screen_width)
        y2 == ShiftIntoScreen(y1, h1, screen_height)
    IN  Rect(Max(x2, 0), Max(y2, 0), Min(w1, screen_width), Min(h1, screen_height))

(***************************************************************************)
(* ResizeEdge, DragMode                                                    *)
(***************************************************************************)
Corners == {"TopLeft", "TopRight", "BottomRight", "BottomLeft"}
Midpoints == {"Top", "Right", "Bottom", "Left"}
ResizeEdge == Corners \cup Midpoints

CursorName(edge) ==
    CASE edge = "TopLeft" -> "nw-resize"
      [] edge = "TopRight" -> "ne-resize"
      [] edge = "BottomRight" -> "se-resize"
      [] edge = "BottomLeft" -> "sw-resize"
      [] edge = "Top" -> "n-resize"
      [] edge = "Right" -> "e-resize"
      [] edge = "Bottom" -> "s-resize"
      [] edge = "Left" -> "w-resize"

DragNone == [kind |-> "None", edge |-> "-"]
Creating == [kind |-> "Creating", edge |-> "-"]
Moving == [kind |-> "Moving", edge |-> "-"]
Resizing(edge) == [kind |-> "Resizing", edge |-> edge]
DragMode == {DragNone, Creating, Moving} \cup {Resizing(e) : e \in ResizeEdge}

(***************************************************************************)
(* Selection: a record with the fields of the struct.  Every method is an  *)
(* operator from the Selection (and its arguments) to the Selection after  *)
(* the call, or to the value it returns.                                   *)
(***************************************************************************)
WithPredefinedRegions(screen_width, screen_height, predefined_regions) ==
    [rect               |-> None,
     screen_width       |-> screen_width,
     screen_height      |-> screen_height,
     drag_mode          |-> DragNone,
     drag_start         |-> <<0, 0>>,
     drag_start_rect    |-> None,
     predefined_regions |-> predefined_regions,
     hovered_region     |-> None]

NewSelection(screen_width, screen_height) ==
    WithPredefinedRegions(screen_width, screen_height, << >>)

\* Mutant of FindPredefinedRegionAt: the last region holding the point is found
FindPredefinedRegionAtLast(s, x, y) ==
    LET hits == {i \in 0 .. Len(s.predefined_regions) - 1 :
                    Contains(s.predefined_regions[i + 1], x, y)}
    IN  IF hits = {} THEN None
        ELSE Some(CHOOSE i \in hits : \A j \in hits : i >= j)

\* Indices are those of the Vec: 0-based, region i is predefined_regions[i + 1].
FindPredefinedRegionAt(s, x, y) ==
    LET hits == {i \in 0 .. Len(s.predefined_regions) - 1 :
                    Contains(s.predefined_regions[i + 1], x, y)}
    IN  IF hits = {} THEN None
        ELSE Some(CHOOSE i \in hits : \A j \in hits : i <= j)

\* Mutant of UpdateHoveredRegion: a hovered region stays hovered
UpdateHoveredRegionSticky(s, x, y) ==
    IF IsSome(s.hovered_region) THEN s
    ELSE [s EXCEPT !.hovered_region = FindPredefinedRegionAt(s, x, y)]

UpdateHoveredRegion(s, x, y) ==
    [s EXCEPT !.hovered_region = FindPredefinedRegionAt(s, x, y)]

SelectPredefinedRegionReturns(s, index) == index < Len(s.predefined_regions)

\* Mutant of SelectPredefinedRegion: the selection is made as a finished drag
SelectPredefinedRegionEndsDrag(s, index) ==
    IF index < Len(s.predefined_regions)
    THEN [s EXCEPT !.rect = Some(s.predefined_regions[index + 1]),
                   !.drag_mode = DragNone,
                   !.drag_start_rect = None,
                   !.hovered_region = None]
    ELSE s

\* Mutant of SelectPredefinedRegion: the region goes through constrain
SelectPredefinedRegionConstrained(s, index) ==
    IF index < Len(s.predefined_regions)
    THEN [s EXCEPT !.rect = Some(Constrain(s.predefined_regions[index + 1],
                                           s.screen_width, s.screen_height))]
    ELSE s

SelectPredefinedRegion(s, index) ==
    IF index < Len(s.predefined_regions)
    THEN [s EXCEPT !.rect = Some(s.predefined_regions[index + 1])]
    ELSE s

\* The four handles, in the order of the array
GetCornerHandles(s) ==
    IF ~IsSome(s.rect) THEN None
    ELSE LET rect == Normalized(Unwrap(s.rect))
             hs   == HANDLE_SIZE
             hhs  == hs \div 2
         IN  Some(<< <<"TopLeft", Rect(rect.x - hhs, rect.y - hhs, hs, hs)>>,
                     <<"TopRight", Rect(Right(rect) - hhs, rect.y - hhs, hs, hs)>>,
                     <<"BottomRight", Rect(Right(rect) - hhs, Bottom(rect) - hhs, hs, hs)>>,
                     <<"BottomLeft", Rect(rect.x - hhs, Bottom(rect) - hhs, hs, hs)>> >>)

HitTestCorner(s, x, y) ==
    LET handles == GetCornerHandles(s)
    IN  IF ~IsSome(handles) THEN None
        ELSE LET hs   == Unwrap(handles)
                 hits == {i \in 1 .. 4 : Contains(hs[i][2], x, y)}
             IN  IF hits = {} THEN None
                 ELSE Some(hs[CHOOSE i \in hits : \A j \in hits : i <= j][1])

HitTestEdge(s, x, y) ==
    IF ~IsSome(s.rect) THEN None
    ELSE LET rect == Normalized(Unwrap(s.rect))
             grab == EDGE_GRAB_WIDTH
             in_horizontal == /\ x >= rect.x + HANDLE_SIZE \div 2
                              /\ x <= Right(rect) - HANDLE_SIZE \div 2
             in_vertical   == /\ y >= rect.y + HANDLE_SIZE \div 2
                              /\ y <= Bottom(rect) - HANDLE_SIZE \div 2
         IN  IF in_horizontal /\ y >= rect.y - grab /\ y <= rect.y + grab
                 THEN Some("Top")
             ELSE IF in_horizontal /\ y >= Bottom(rect) - grab /\ y <= Bottom(rect) + grab
                 THEN Some("Bottom")
             ELSE IF in_vertical /\ x >= rect.x - grab /\ x <= rect.x + grab
                 THEN Some("Left")
             ELSE IF in_vertical /\ x >= Right(rect) - grab /\ x <= Right(rect) + grab
                 THEN Some("Right")
             ELSE None

\* Mutant of HitTest: the edges are tried before the corner handles
HitTestEdgesFirst(s, x, y) ==
    IF IsSome(HitTestEdge(s, x, y)) THEN Resizing(Unwrap(HitTestEdge(s, x, y)))
    ELSE IF IsSome(HitTestCorner(s, x, y)) THEN Resizing(Unwrap(HitTestCorner(s, x, y)))
    ELSE IF IsSome(s.rect) /\ Contains(Normalized(Unwrap(s.rect)), x, y) THEN Moving
    ELSE Creating

HitTest(s, x, y) ==
    IF IsSome(HitTestCorner(s, x, y)) THEN Resizing(Unwrap(HitTestCorner(s, x, y)))
    ELSE IF IsSome(HitTestEdge(s, x, y)) THEN Resizing(Unwrap(HitTestEdge(s, x, y)))
    ELSE IF IsSome(s.rect) /\ Contains(Normalized(Unwrap(s.rect)), x, y) THEN Moving
    ELSE Creating

\* Mutant of CursorForPosition: the edges are tried before the corner handles
CursorForPositionEdgesFirst(s, x, y) ==
    IF s.drag_mode = Moving THEN "grabbing"
    ELSE IF IsSome(HitTestEdge(s, x, y)) THEN CursorName(Unwrap(HitTestEdge(s, x, y)))
    ELSE IF IsSome(HitTestCorner(s, x, y)) THEN CursorName(Unwrap(HitTestCorner(s, x, y)))
    ELSE IF IsSome(s.rect) /\ Contains(Normalized(Unwrap(s.rect)), x, y) THEN "grab"
    ELSE "crosshair"

CursorForPosition(s, x, y) ==
    IF s.drag_mode = Moving THEN "grabbing"
    ELSE IF IsSome(HitTestCorner(s, x, y)) THEN CursorName(Unwrap(HitTestCorner(s, x, y)))
    ELSE IF IsSome(HitTestEdge(s, x, y)) THEN CursorName(Unwrap(HitTestEdge(s, x, y)))
    ELSE IF IsSome(s.rect) /\ Contains(Normalized(Unwrap(s.rect)), x, y) THEN "grab"
    ELSE "crosshair"

\* Mutant of StartDrag: the snapshot is taken after the rect is reset
StartDragSnapshotAfter(s, x, y) ==
    LET mode == HitTest(s, x, y)
        rect == IF mode = Creating THEN Some(Rect(x, y, 0, 0)) ELSE s.rect
    IN  [s EXCEPT !.drag_mode = mode,
                  !.drag_start = <<x, y>>,
                  !.drag_start_rect = rect,
                  !.rect = rect]

\* Mutant of StartDrag: the new rect is left to the first update
StartDragRectKept(s, x, y) ==
    [s EXCEPT !.drag_mode = HitTest(s, x, y),
              !.drag_start = <<x, y>>,
              !.drag_start_rect = s.rect]

\* Mutant of StartDrag: every press starts a new rect
StartDragAlwaysCreates(s, x, y) ==
    [s EXCEPT !.drag_mode = Creating,
              !.drag_start = <<x, y>>,
              !.drag_start_rect = s.rect,
              !.rect = Some(Rect(x, y, 0, 0))]

StartDrag(s, x, y) ==
    LET mode == HitTest(s, x, y)
    IN  [s EXCEPT !.drag_mode = mode,
                  !.drag_start = <<x, y>>,
                  !.drag_start_rect = s.rect,
                  !.rect = IF mode = Creating THEN Some(Rect(x, y, 0, 0)) ELSE s.rect]

\* The per-edge transform of apply_resize, before its normalize and constrain
ResizeTransform(start, edge, dx, dy) ==
    CASE edge = "TopLeft" ->
            Rect(start.x + dx, start.y + dy, start.width - dx, start.height - dy)
      [] edge = "Top" ->
            Rect(start.x, start.y + dy, start.width, start.height - dy)
      [] edge = "TopRight" ->
            Rect(start.x, start.y + dy, start.width + dx, start.height - dy)
      [] edge = "Right" ->
            Rect(start.x, start.y, start.width + dx, start.height)
      [] edge = "BottomRight" ->
            Rect(start.x, start.y, start.width + dx, start.height + dy)
      [] edge = "Bottom" ->
            Rect(start.x, start.y, start.width, start.height + dy)
      [] edge = "BottomLeft" ->
            Rect(start.x + dx, start.y, start.width - dx, start.height + dy)
      [] edge = "Left" ->
            Rect(start.x + dx, start.y, start.width - dx, start.height)

\* Mutant of ApplyResize: the deltas count as growth whatever their sign
ApplyResizeGrowOnly(s, start, edge, dx, dy) ==
    Constrain(Normalized(ResizeTransform(start, edge, Abs(dx), Abs(dy))),
              s.screen_width, s.screen_height)

\* Mutant of ApplyResize: the width and height of the snapshot are kept
ApplyResizeSizeKept(s, start, edge, dx, dy) ==
    Constrain(Normalized([ResizeTransform(start, edge, dx, dy)
                             EXCEPT !.width = start.width, !.height = start.height]),
              s.screen_width, s.screen_height)

\* Mutant of ApplyResize: the rect is normalized and left to end_drag to constrain
ApplyResizeNormalizedOnly(s, start, edge, dx, dy) ==
    Normalized(ResizeTransform(start, edge, dx, dy))

ApplyResize(s, start, edge, dx, dy) ==
    Constrain(Normalized(ResizeTransform(start, edge, dx, dy)),
              s.screen_width, s.screen_height)

\* Mutant of DragDelta: the pointer position itself is taken as the delta
DragDeltaAbsolute(s, x, y) == <<x, y>>

\* The delta of update_drag: the pointer against the drag's start point
DragDelta(s, x, y) == <<x - s.drag_start[1], y - s.drag_start[2]>>

\* Mutant of DragBase: the deltas are applied to the rect as it is now
DragBaseCurrent(s) == s.rect

\* The rect the deltas of update_drag are applied to: the drag-start snapshot
DragBase(s) == s.drag_start_rect

\* Mutant of UpdateDrag: a resize grabs anew whatever is under the pointer
UpdateDragReidentifies(s, x, y) ==
    LET sx == s.drag_start[1]
        sy == s.drag_start[2]
        dx == DragDelta(s, x, y)[1]
        dy == DragDelta(s, x, y)[2]
    IN  CASE s.drag_mode.kind = "None" -> s
          [] s.drag_mode.kind = "Creating" ->
                [s EXCEPT !.rect = Some(Rect(sx, sy, dx, dy))]
          [] s.drag_mode.kind = "Moving" ->
                IF IsSome(DragBase(s))
                THEN LET start_rect == Unwrap(DragBase(s))
                     IN  [s EXCEPT !.rect =
                            Some(Constrain(Rect(start_rect.x + dx, start_rect.y + dy,
                                                start_rect.width, start_rect.height),
                                           s.screen_width, s.screen_height))]
                ELSE s
          [] s.drag_mode.kind = "Resizing" ->
                IF IsSome(DragBase(s))
                THEN LET t == [s EXCEPT !.rect =
                                  Some(ApplyResize(s, Unwrap(DragBase(s)),
                                                   s.drag_mode.edge, dx, dy))]
                     IN  [t EXCEPT !.drag_mode = HitTest(t, x, y)]
                ELSE s

\* Mutant of UpdateDrag: a move or a resize goes on from the rect as it is
UpdateDragFromCurrent(s, x, y) ==
    LET sx == s.drag_start[1]
        sy == s.drag_start[2]
        dx == DragDelta(s, x, y)[1]
        dy == DragDelta(s, x, y)[2]
    IN  CASE s.drag_mode.kind = "None" -> s
          [] s.drag_mode.kind = "Creating" ->
                [s EXCEPT !.rect = Some(Rect(sx, sy, dx, dy))]
          [] s.drag_mode.kind = "Moving" ->
                IF IsSome(s.rect)
                THEN LET start_rect == Unwrap(s.rect)
                     IN  [s EXCEPT !.rect =
                            Some(Constrain(Rect(start_rect.x + dx, start_rect.y + dy,
                                                start_rect.width, start_rect.height),
                                           s.screen_width, s.screen_height))]
                ELSE s
          [] s.drag_mode.kind = "Resizing" ->
                IF IsSome(s.rect)
                THEN [s EXCEPT !.rect =
                        Some(ApplyResize(s, Unwrap(s.rect), s.drag_mode.edge, dx, dy))]
                ELSE s

UpdateDrag(s, x, y) ==
    LET sx == s.drag_start[1]
        sy == s.drag_start[2]
        dx == DragDelta(s, x, y)[1]
        dy == DragDelta(s, x, y)[2]
    IN  CASE s.drag_mode.kind = "None" -> s
          [] s.drag_mode.kind = "Creating" ->
                [s EXCEPT !.rect = Some(Rect(sx, sy, dx, dy))]
          [] s.drag_mode.kind = "Moving" ->
                IF IsSome(DragBase(s))
                THEN LET start_rect == Unwrap(DragBase(s))
                     IN  [s EXCEPT !.rect =
                            Some(Constrain(Rect(start_rect.x + dx, start_rect.y + dy,
                                                start_rect.width, start_rect.height),
                                           s.screen_width, s.screen_height))]
                ELSE s
          [] s.drag_mode.kind = "Resizing" ->
                IF IsSome(DragBase(s))
                THEN [s EXCEPT !.rect =
                        Some(ApplyResize(s, Unwrap(DragBase(s)),
                                         s.drag_mode.edge, dx, dy))]
                ELSE s

\* Mutant of EndDrag: a rect without extent is discarded
EndDragDiscardsEmpty(s) ==
    [s EXCEPT !.rect = IF IsSome(s.rect) /\ Unwrap(s.rect).width # 0
                                         /\ Unwrap(s.rect).height # 0
                       THEN Some(Constrain(Normalized(Unwrap(s.rect)),
                                           s.screen_width, s.screen_height))
                       ELSE None,
              !.drag_mode = DragNone,
              !.drag_start_rect = None]

\* Mutant of EndDrag: outside a drag there is nothing to end
EndDragOnlyInDrag(s) ==
    IF s.drag_mode = DragNone THEN s
    ELSE [s EXCEPT !.rect = IF IsSome(s.rect)
                            THEN Some(Constrain(Normalized(Unwrap(s.rect)),
                                                s.screen_width, s.screen_height))
                            ELSE None,
                   !.drag_mode = DragNone,
                   !.drag_start_rect = None]

EndDrag(s) ==
    [s EXCEPT !.rect = IF IsSome(s.rect)
                       THEN Some(Constrain(Normalized(Unwrap(s.rect)),
                                           s.screen_width, s.screen_height))
                       ELSE None,
              !.drag_mode = DragNone,
              !.drag_start_rect = None]

\* Mutant of GetCropRegion: the rect goes through constrain first
GetCropRegionConstrained(s) ==
    IF ~IsSome(s.rect) THEN None
    ELSE LET rect == Constrain(Unwrap(s.rect), s.screen_width, s.screen_height)
         IN  Some(<<Round(rect.x), Round(rect.y), Round(rect.width), Round(rect.height)>>)

\* (x, y, w, h) in whole pixels
GetCropRegion(s) ==
    IF ~IsSome(s.rect) THEN None
    ELSE LET rect == Normalized(Unwrap(s.rect))
         IN  Some(<<Round(rect.x), Round(rect.y), Round(rect.width), Round(rect.height)>>)

HasValidSelection(s) ==
    IF IsSome(s.rect)
    THEN LET norm == Normalized(Unwrap(s.rect))
         IN  norm.width >= MIN_SIZE /\ norm.height >= MIN_SIZE
    ELSE FALSE

(***************************************************************************)
(* Predefined regions from text. A char is its Unicode scalar value, a     *)
(* text the sequence of its chars.                                         *)
(***************************************************************************)
\* The printable ASCII characters in the order of their codes: U+0020 to
\* U+005F, and U+0061 to U+007E (a string of the model cannot hold U+0060)
AsciiFromSpace ==
    <<" ", "!", "\"", "#", "$", "%", "&", "'", "(", ")", "*", "+", ",", "-", ".", "/",
      "0", "1", "2", "3", "4", "5", "6", "7", "8", "9", ":", ";", "<", "=", ">", "?",
      "@", "A", "B", "C", "D", "E", "F", "G", "H", "I", "J", "K", "L", "M", "N", "O",
      "P", "Q", "R", "S", "T", "U", "V", "W", "X", "Y", "Z", "[", "\\", "]", "^", "_">>

AsciiFromLowerA ==
    <<"a", "b", "c", "d", "e", "f", "g", "h", "i", "j", "k", "l", "m", "n", "o", "p",
      "q", "r", "s", "t", "u", "v", "w", "x", "y", "z", "{", "|", "}", "~">>

\* The char of a printable ASCII character
Code(c) ==
    IF \E i \in 1 .. Len(AsciiFromSpace) : AsciiFromSpace[i] = c
    THEN 31 + (CHOOSE i \in 1 .. Len(AsciiFromSpace) : AsciiFromSpace[i] = c)
    ELSE 96 + (CHOOSE i \in 1 .. Len(AsciiFromLowerA) : AsciiFromLowerA[i] = c)

\* The text of a sequence of printable ASCII characters
Text(s) == [i \in 1 .. Len(s) |-> Code(s[i])]

\* The chars outside printable ASCII that the texts of this module use
Named ==
    [tab |-> 9, line_feed |-> 10, vertical_tab |-> 11, form_feed |-> 12,
     carriage_return |-> 13, next_line |-> 133, no_break_space |-> 160,
     ogham_space_mark |-> 5760, em_space |-> 8195, ideographic_space |-> 12288]

Comma == Code(",")
Point == Code(".")
PlusSign == Code("+")
MinusSign == Code("-")
DigitZero == Code("0")
DigitNine == Code("9")
LowerE == Code("e")
UpperE == Code("E")
UpperA == Code("A")
UpperZ == Code("Z")
LowerA == Code("a")

\* char::is_whitespace, the Unicode property White_Space: U+0009..U+000D,
\* U+0020, U+0085, U+00A0, U+1680, U+2000..U+200A, U+2028, U+2029, U+202F,
\* U+205F, U+3000
Whitespace ==
    (9 .. 13) \cup {32, 133, 160, 5760} \cup (8192 .. 8202)
        \cup {8232, 8233, 8239, 8287, 12288}

IsDigit(c) == c \in DigitZero .. DigitNine
DigitValue(c) == c - DigitZero

Pow10(n) == 10 ^ n

\* The number that decimal digits write, the halves of the text apart
RECURSIVE DigitsValue(_)
DigitsValue(s) ==
    IF s = << >> THEN 0
    ELSE IF Len(s) = 1 THEN DigitValue(s[1])
    ELSE DigitsValue(SubSeq(s, 1, Len(s) \div 2)) * 10 ^ (Len(s) - Len(s) \div 2)
             + DigitsValue(SubSeq(s, Len(s) \div 2 + 1, Len(s)))

\* str::trim
\* str::trim_start: s from its first character that is not whitespace
TrimStart(s) ==
    SubSeq(s, Least({i \in 1 .. Len(s) : s[i] \notin Whitespace} \cup {Len(s) + 1}), Len(s))

\* str::trim_end: s up to its last character that is not whitespace
TrimEnd(s) ==
    SubSeq(s, 1, Greatest({i \in 1 .. Len(s) : s[i] \notin Whitespace} \cup {0}))

Trim(s) == TrimEnd(TrimStart(s))

\* The first index of s whose character is in the set, Len(s) + 1 without one
FirstIn(s, set) == Least({i \in 1 .. Len(s) : s[i] \in set} \cup {Len(s) + 1})

\* str::split_whitespace: the maximal runs of other characters, one run at
\* a time from the front of s
RECURSIVE SplitWhitespaceFrom(_, _)
SplitWhitespaceFrom(s, acc) ==
    IF TrimStart(s) = << >> THEN acc
    ELSE SplitWhitespaceFrom(
             SubSeq(TrimStart(s), FirstIn(TrimStart(s), Whitespace), Len(TrimStart(s))),
             Append(acc, SubSeq(TrimStart(s), 1, FirstIn(TrimStart(s), Whitespace) - 1)))

SplitWhitespace(s) == SplitWhitespaceFrom(s, << >>)

\* str::split(','): the pieces between commas, empty ones included, one
\* piece at a time from the front of s
RECURSIVE SplitCommaFrom(_, _)
SplitCommaFrom(s, acc) ==
    IF FirstIn(s, {Comma}) > Len(s) THEN Append(acc, s)
    ELSE SplitCommaFrom(SubSeq(s, FirstIn(s, {Comma}) + 1, Len(s)),
                        Append(acc, SubSeq(s, 1, FirstIn(s, {Comma}) - 1)))

SplitComma(s) == SplitCommaFrom(s, << >>)

(***************************************************************************)
(* Natural numbers of any size, for the decimals and differences that the  *)
(* integers of the checker cannot hold: the sequence of the number's limbs *)
(* of 15 bits, the least first, the last one not zero; << >> is zero.      *)
(***************************************************************************)
Limb == 2 ^ 15

\* a without the zero limbs that end it
BigNorm(a) == SubSeq(a, 1, Greatest({i \in 1 .. Len(a) : a[i] # 0} \cup {0}))

RECURSIVE BigOfInt(_)
BigOfInt(n) == IF n = 0 THEN << >> ELSE <<n % Limb>> \o BigOfInt(n \div Limb)

\* The i-th limb of a, zero beyond its last
BigLimb(a, i) == IF i <= Len(a) THEN a[i] ELSE 0

\* The carry into the i-th limb of a + b: a limb below overflows, and the
\* limbs between that one and the i-th pass a carry on
BigCarry(a, b, i) ==
    \E j \in 1 .. i - 1 :
        /\ BigLimb(a, j) + BigLimb(b, j) >= Limb
        /\ \A k \in j + 1 .. i - 1 : BigLimb(a, k) + BigLimb(b, k) = Limb - 1

BigAdd(a, b) ==
    BigNorm(SubSeq([i \in 1 .. Max(Len(a), Len(b)) + 1 |->
                       (BigLimb(a, i) + BigLimb(b, i)
                            + (IF BigCarry(a, b, i) THEN 1 ELSE 0)) % Limb],
                   1, Max(Len(a), Len(b)) + 1))

\* a * c + carry, for c and carry below Limb: the low limbs of the products
\* of the limbs, and their high limbs one place up
BigMulAdd(a, c, carry) ==
    BigAdd(SubSeq([i \in 1 .. Len(a) |-> (a[i] * c) % Limb], 1, Len(a)),
           <<carry>> \o [i \in 1 .. Len(a) |-> (a[i] * c) \div Limb])

\* The borrow from the i-th limb of a - b: a limb below is short, and the
\* limbs between that one and the i-th pass a borrow on
BigBorrow(a, b, i) ==
    \E j \in 1 .. i - 1 :
        /\ a[j] < BigLimb(b, j)
        /\ \A k \in j + 1 .. i - 1 : a[k] = BigLimb(b, k)

\* a - b, for a >= b
BigSub(a, b) ==
    BigNorm(SubSeq([i \in 1 .. Len(a) |->
                       (a[i] - BigLimb(b, i)
                            - (IF BigBorrow(a, b, i) THEN 1 ELSE 0)) % Limb],
                   1, Len(a)))

\* -1, 0 or 1 as a is below, equal to or above b
BigCmp(a, b) ==
    IF Len(a) # Len(b) THEN (IF Len(a) > Len(b) THEN 1 ELSE 0 - 1)
    ELSE LET differ == {i \in 1 .. Len(a) : a[i] # b[i]}
         IN  IF differ = {} THEN 0
             ELSE IF a[Greatest(differ)] > b[Greatest(differ)] THEN 1 ELSE 0 - 1

\* a * 2^n
BigShiftLeft(a, n) ==
    IF a = << >> THEN << >>
    ELSE [i \in 1 .. (n \div 15) |-> 0] \o BigMulAdd(a, 2 ^ (n % 15), 0)

\* The bits of a natural number below 2^31
BitLength(n) == Cardinality({k \in 0 .. 30 : 2 ^ k <= n})

BigBitLength(a) == IF a = << >> THEN 0 ELSE 15 * (Len(a) - 1) + BitLength(a[Len(a)])

\* a * b, b by halves
RECURSIVE BigMul(_, _)
BigMul(a, b) ==
    IF a = << >> \/ b = << >> THEN << >>
    ELSE IF Len(b) = 1 THEN BigMulAdd(a, b[1], 0)
    ELSE BigAdd(BigMul(a, SubSeq(b, 1, Len(b) \div 2)),
                BigShiftLeft(BigMul(a, SubSeq(b, Len(b) \div 2 + 1, Len(b))),
                             15 * (Len(b) \div 2)))

\* 10^j
RECURSIVE BigPow10(_)
BigPow10(j) ==
    IF j <= 4 THEN BigOfInt(10 ^ j)
    ELSE BigMul(BigPow10(j - j \div 2), BigPow10(j \div 2))

\* a * 10^j
BigMulPow10(a, j) == BigMul(a, BigPow10(j))

\* The number that decimal digits write
RECURSIVE BigFromDigits(_)
BigFromDigits(s) ==
    IF Len(s) <= 9 THEN BigOfInt(DigitsValue(s))
    ELSE BigAdd(BigMul(BigPow10(Len(s) - Len(s) \div 2),
                       BigFromDigits(SubSeq(s, 1, Len(s) \div 2))),
                BigFromDigits(SubSeq(s, Len(s) \div 2 + 1, Len(s))))

\* The quotient and the remainder of a by b, for a below b * 32^(i+1): the
\* quotient's digits of five bits from the i-th down, each the number of
\* multiples of b * 32^i that a holds
RECURSIVE BigDivDigits(_, _, _, _)
BigDivDigits(a, b, i, q) ==
    IF i < 0 \/ a = << >> THEN [q |-> q, r |-> a]
    ELSE LET step  == BigShiftLeft(b, 5 * i)
             digit == Cardinality({j \in 1 .. 31 : BigCmp(BigMulAdd(step, j, 0), a) <= 0})
         IN  BigDivDigits(IF digit = 0 THEN a ELSE BigSub(a, BigMulAdd(step, digit, 0)),
                          b, i - 1, q + digit * 32 ^ i)

(***************************************************************************)
(* f32. A finite value is m * 2^e pixels with its sign apart, m odd and    *)
(* below 2^24, or m = 0 = e for the two zeros; the other values are the    *)
(* two infinities and NaN. Every result is rounded as f32 rounds it: to    *)
(* the nearest value, to the even one of two equally near.                 *)
(***************************************************************************)
\* f32::MANTISSA_DIGITS
MANTISSA_DIGITS == 24

\* The exponent of the least positive f32, 2^-149
LeastExponent == -149

\* The bits of f32::MAX = (2^24 - 1) * 2^104
GreatestBitLength == 128

\* The zero bits that end a positive number below 2^31
TrailingZeros(m) == Cardinality({k \in 1 .. 30 : m % 2 ^ k = 0})

F32Finite(negative, m, e) ==
    IF m = 0 THEN [kind |-> "finite", negative |-> negative, m |-> 0, e |-> 0]
    ELSE [kind |-> "finite", negative |-> negative,
          m |-> m \div 2 ^ TrailingZeros(m), e |-> e + TrailingZeros(m)]

F32Infinite(negative) == [kind |-> "inf", negative |-> negative, m |-> 0, e |-> 0]

F32NaN == [kind |-> "nan", negative |-> FALSE, m |-> 0, e |-> 0]

\* m * 2^e, or the infinity when it is above f32::MAX
F32Nearest(negative, m, e) ==
    IF BitLength(m) + e > GreatestBitLength THEN F32Infinite(negative)
    ELSE F32Finite(negative, m, e)

\* The quotient q rounded by the remainder: cmp is -1, 0 or 1 as twice the
\* remainder is below, equal to or above the divisor
F32RoundUp(q, cmp) == IF cmp > 0 \/ (cmp = 0 /\ q % 2 = 1) THEN q + 1 ELSE q

\* The f32 nearest to n / d, when the quotient's last bit counts 2^e: the
\* quotient and the remainder of n and d scaled by 2^e, rounded; a quotient
\* of more than 24 bits is taken again one bit shorter
RECURSIVE F32RoundAt(_, _, _, _)
F32RoundAt(negative, n, d, e) ==
    LET b    == IF e > 0 THEN BigShiftLeft(d, e) ELSE d
        quot == BigDivDigits(IF e < 0 THEN BigShiftLeft(n, 0 - e) ELSE n, b,
                             (MANTISSA_DIGITS + 1) \div 5 - 1, 0)
    IN  IF quot.q >= 2 ^ MANTISSA_DIGITS THEN F32RoundAt(negative, n, d, e + 1)
        ELSE F32Nearest(negative,
                        F32RoundUp(quot.q, BigCmp(BigMulAdd(quot.r, 2, 0), b)), e)

\* The f32 nearest to n / d pixels, n and d natural numbers of any size
F32Round(negative, n, d) ==
    IF n = << >> THEN F32Finite(negative, 0, 0)
    ELSE F32RoundAt(negative, n, d,
                    Max(BigBitLength(n) - BigBitLength(d) - MANTISSA_DIGITS, LeastExponent))

\* The f32 nearest to (q + r / d) * 2^e, for r < d and q below 2^24, all
\* within the integers of the checker: the further bits of the quotient, as
\* many at a time as the integers hold
RECURSIVE F32RoundSmall(_, _, _, _, _)
F32RoundSmall(negative, q, r, d, e) ==
    IF r = 0 THEN F32Finite(negative, q, e)
    ELSE IF q >= 2 ^ (MANTISSA_DIGITS - 1)
    THEN F32Finite(negative,
                   IF 2 * r > d \/ (2 * r = d /\ q % 2 = 1) THEN q + 1 ELSE q, e)
    ELSE LET s == Min(31 - BitLength(d), MANTISSA_DIGITS - BitLength(q))
         IN  F32RoundSmall(negative, q * 2 ^ s + (r * 2 ^ s) \div d, (r * 2 ^ s) % d, d, e - s)

\* The f32 nearest to n * 2^e, for n from 2^24 to below 2^30: the k bits
\* beyond the 24th are rounded away
F32RoundBits(negative, n, e, k) ==
    F32Nearest(negative,
               F32RoundUp(n \div 2 ^ k,
                          IF 2 * (n % 2 ^ k) > 2 ^ k THEN 1
                          ELSE IF 2 * (n % 2 ^ k) = 2 ^ k THEN 0 ELSE 0 - 1),
               e + k)

\* The f32 nearest to v * 2^e, for an integer v within 2^30 of zero
F32OfInteger(v, e) ==
    IF v = 0 THEN F32Finite(FALSE, 0, 0)
    ELSE IF Abs(v) < 2 ^ MANTISSA_DIGITS THEN F32Nearest(v < 0, Abs(v), e)
    ELSE F32RoundBits(v < 0, Abs(v), e, BitLength(Abs(v)) - MANTISSA_DIGITS)

\* The rounded sum of finite values too large for the integers of the checker:
\* x and y are their sizes in units
\* of 2^low, cmp is -1, 0 or 1 as x is below, equal to or above y
F32AddAligned(a, b, low, x, y, cmp) ==
    IF a.negative # b.negative /\ cmp = 0 THEN F32Finite(FALSE, 0, 0)
    ELSE F32Round(IF a.negative = b.negative \/ cmp > 0 THEN a.negative ELSE b.negative,
                  BigShiftLeft(IF a.negative = b.negative THEN BigAdd(x, y)
                               ELSE IF cmp > 0 THEN BigSub(x, y) ELSE BigSub(y, x),
                               IF low > 0 THEN low ELSE 0),
                  IF low < 0 THEN BigShiftLeft(<<1>>, 0 - low) ELSE <<1>>)

\* The f32 addition a + b of finite values: the sum in units of 2^low, within
\* the integers of the checker when both sizes are below 2^29
F32AddFinite(a, b) ==
    LET low == Min(a.e, b.e)
        x   == BigShiftLeft(BigOfInt(a.m), a.e - low)
        y   == BigShiftLeft(BigOfInt(b.m), b.e - low)
    IN  IF a.m = 0 /\ b.m = 0 THEN F32Finite(a.negative /\ b.negative, 0, 0)
        ELSE IF a.m = 0 THEN b
        ELSE IF b.m = 0 THEN a
        ELSE IF BitLength(a.m) + a.e - low < 30 /\ BitLength(b.m) + b.e - low < 30
        THEN F32OfInteger((IF a.negative THEN 0 - a.m ELSE a.m) * 2 ^ (a.e - low)
                              + (IF b.negative THEN 0 - b.m ELSE b.m) * 2 ^ (b.e - low),
                          low)
        ELSE F32AddAligned(a, b, low, x, y, BigCmp(x, y))

\* The f32 subtraction a - b
F32Sub(a, b) ==
    IF a.kind = "nan" \/ b.kind = "nan" THEN F32NaN
    ELSE IF a.kind = "inf"
         THEN IF b.kind = "inf" /\ b.negative = a.negative THEN F32NaN ELSE a
    ELSE IF b.kind = "inf" THEN F32Infinite(~b.negative)
    ELSE F32AddFinite(a, [b EXCEPT !.negative = ~b.negative])

\* The f32 comparison v > 0.0
F32Positive(v) ==
    \/ v.kind = "inf" /\ ~v.negative
    \/ v.kind = "finite" /\ ~v.negative /\ v.m > 0

\* The f32 comparison v >= 0.0
F32NonNegative(v) ==
    \/ v.kind = "inf" /\ ~v.negative
    \/ v.kind = "finite" /\ (~v.negative \/ v.m = 0)

\* The value as a coordinate of the model: the integer of 1/Unit pixel when
\* it is one that the checker holds (both zeros are 0), else the f32 itself
\* as m * 2^e pixels, and the infinities and NaN as f32 prints them
F32Coordinate(v) ==
    LET signed == IF v.negative THEN 0 - v.m ELSE v.m
    IN  CASE v.kind = "nan" -> "NaN"
          [] v.kind = "inf" -> IF v.negative THEN "-inf" ELSE "inf"
          [] v.kind = "finite" /\ v.e >= 0 /\ BitLength(v.m) + v.e + BitLength(Unit) <= 31 ->
                 signed * 2 ^ v.e * Unit
          [] v.kind = "finite" /\ v.e < 0 /\ v.e >= 0 - 30 /\ Unit % (2 ^ (0 - v.e)) = 0 ->
                 signed * (Unit \div (2 ^ (0 - v.e)))
          [] OTHER -> [m |-> signed, e |-> v.e]

\* char::to_ascii_lowercase on each char
ToAsciiLowercase(s) ==
    [i \in 1 .. Len(s) |->
        IF s[i] \in UpperA .. UpperZ THEN s[i] + (LowerA - UpperA) ELSE s[i]]

\* Digits without the zeros they begin with
StripZeros(s) ==
    SubSeq(s, Least({i \in 1 .. Len(s) : s[i] # DigitZero} \cup {Len(s) + 1}), Len(s))

\* Digits without the zeros they end with
StripTrailingZeros(s) ==
    SubSeq(s, 1, Greatest({i \in 1 .. Len(s) : s[i] # DigitZero} \cup {0}))

\* A decimal of at least 10^39 is above f32::MAX and reads as an infinity;
\* one below 10^-46 is under half the least positive f32 and reads as zero
OverflowOrder == 40
UnderflowOrder == -46

\* dec2flt's parse_scientific: the exponent's digits are taken in, one at a
\* time, while the number read so far is below 0x10000; later digits are
\* passed over
ExponentLimit == 65536

RECURSIVE ParseScientificFrom(_, _)
ParseScientificFrom(digits, exponent) ==
    IF digits = << >> \/ exponent >= ExponentLimit THEN exponent
    ELSE ParseScientificFrom(Tail(digits), 10 * exponent + DigitValue(Head(digits)))

ParseScientific(digits) == ParseScientificFrom(StripZeros(digits), 0)

\* The digits a nonzero decimal is rounded by. No f32 and no midpoint of two
\* neighbouring f32 has more than 113 significant digits (the odd numbers
\* below 2^25 times 5^150 have at most that many), so digits after the
\* 113th decide a rounding only by being nonzero, as the rest that dec2flt
\* drops after its Decimal::MAX_DIGITS = 768 digits does by the truncated flag
MidpointDigits == 113

\* The significant digits that rounding looks at: those of a longer run up
\* to the MidpointDigits-th, and a final 1 for the nonzero rest
RoundingDigits(digits) ==
    IF Len(digits) <= MidpointDigits THEN digits
    ELSE Append(SubSeq(digits, 1, MidpointDigits), DigitZero + 1)

\* The f32 of int.fraction * 10^exponent
DecimalValue(negative, int, fraction, exponent) ==
    LET frac   == StripTrailingZeros(fraction)
        sig    == StripZeros(int \o frac)
        order  == Len(sig) + exponent - Len(frac)
        digits == RoundingDigits(StripTrailingZeros(sig))
        k      == order - Len(digits)
    IN  IF digits = << >> THEN F32Finite(negative, 0, 0)
        ELSE IF order >= OverflowOrder THEN F32Infinite(negative)
        ELSE IF order <= UnderflowOrder THEN F32Finite(negative, 0, 0)
        ELSE IF k >= 0 /\ order <= 9
        THEN F32OfInteger((IF negative THEN 0 - 1 ELSE 1) * DigitsValue(digits) * Pow10(k), 0)
        ELSE IF k < 0 /\ k >= 0 - 9 /\ Len(digits) <= 9
                /\ DigitsValue(digits) \div Pow10(0 - k) < 2 ^ MANTISSA_DIGITS
        THEN F32RoundSmall(negative, DigitsValue(digits) \div Pow10(0 - k),
                           DigitsValue(digits) % Pow10(0 - k), Pow10(0 - k), 0)
        ELSE F32Round(negative,
                      IF k >= 0 THEN BigMulPow10(BigFromDigits(digits), k)
                      ELSE BigFromDigits(digits),
                      IF k >= 0 THEN <<1>> ELSE BigMulPow10(<<1>>, 0 - k))

NaNWord == Text(<<"n", "a", "n">>)
InfinityWords == {Text(<<"i", "n", "f">>), Text(<<"i", "n", "f", "i", "n", "i", "t", "y">>)}

\* <f32 as FromStr>::from_str: [sign] (inf | infinity | nan | number), the
\* number being digits with at most one point and an optional exponent
ReadF32(s) ==
    LET signed   == s # << >> /\ Head(s) \in {PlusSign, MinusSign}
        negative == s # << >> /\ Head(s) = MinusSign
        u        == IF signed THEN Tail(s) ELSE s
        word     == ToAsciiLowercase(u)
        es       == {i \in 1 .. Len(u) : u[i] \in {LowerE, UpperE}}
        e        == IF es = {} THEN Len(u) + 1 ELSE Least(es)
        m        == SubSeq(u, 1, e - 1)
        x        == SubSeq(u, e + 1, Len(u))
        xsigned  == x # << >> /\ Head(x) \in {PlusSign, MinusSign}
        xdigits  == IF xsigned THEN Tail(x) ELSE x
        xsize    == ParseScientific(xdigits)
        exponent == IF es = {} THEN 0
                    ELSE IF x # << >> /\ Head(x) = MinusSign THEN 0 - xsize ELSE xsize
        dots     == {i \in 1 .. Len(m) : m[i] = Point}
        dot      == IF dots = {} THEN Len(m) + 1 ELSE Least(dots)
        int      == SubSeq(m, 1, dot - 1)
        frac     == SubSeq(m, dot + 1, Len(m))
    IN  IF word = NaNWord THEN Some(F32NaN)
        ELSE IF word \in InfinityWords
        THEN Some(F32Infinite(negative))
        ELSE IF /\ Cardinality(dots) <= 1
                /\ Len(int) + Len(frac) >= 1
                /\ \A i \in 1 .. Len(int) : IsDigit(int[i])
                /\ \A i \in 1 .. Len(frac) : IsDigit(frac[i])
                /\ es # {} => (Len(xdigits) >= 1 /\ \A i \in 1 .. Len(xdigits) : IsDigit(xdigits[i]))
        THEN Some(DecimalValue(negative, int, frac, exponent))
        ELSE None

\* str::parse::<f32>().ok(), as a coordinate
ParseF32(s) ==
    LET v == ReadF32(s)
    IN  IF IsSome(v) THEN Some(F32Coordinate(Unwrap(v))) ELSE None

\* Rect::parse with the test width >= 0.0 && height >= 0.0
RectOfAnySize(x1, y1, width, height) ==
    IF F32NonNegative(width) /\ F32NonNegative(height)
    THEN Some(Rect(F32Coordinate(x1), F32Coordinate(y1),
                   F32Coordinate(width), F32Coordinate(height)))
    ELSE None

\* Rect::parse, from the test of the size on
RectOfSize(x1, y1, width, height) ==
    IF F32Positive(width) /\ F32Positive(height)
    THEN Some(Rect(F32Coordinate(x1), F32Coordinate(y1),
                   F32Coordinate(width), F32Coordinate(height)))
    ELSE None

\* Rect::parse
Parse(text) ==
    LET s     == Trim(text)
        parts == SplitWhitespace(s)
    IN  IF Len(parts) # 2 THEN None
        ELSE LET p1 == SplitComma(parts[1])
             IN  IF Len(p1) # 2 THEN None
                 ELSE LET x1 == ReadF32(p1[1])
                          y1 == ReadF32(p1[2])
                          p2 == SplitComma(parts[2])
                      IN  IF ~IsSome(x1) \/ ~IsSome(y1) THEN None
                          ELSE IF Len(p2) # 2 THEN None
                          ELSE LET x2 == ReadF32(p2[1])
                                   y2 == ReadF32(p2[2])
                               IN  IF ~IsSome(x2) \/ ~IsSome(y2) THEN None
                                   ELSE RectOfSize(Unwrap(x1), Unwrap(y1),
                                                   F32Sub(Unwrap(x2), Unwrap(x1)),
                                                   F32Sub(Unwrap(y2), Unwrap(y1)))

\* if let Some(rect) = Rect::parse(&line) { regions.push(rect) }
PushParsed(regions, rect) ==
    IF IsSome(rect) THEN Append(regions, Unwrap(rect)) ELSE regions

\* read_predefined_regions_from_stdin: the lines of the input, in order
RECURSIVE ReadRegionsFrom(_, _)
ReadRegionsFrom(lines, regions) ==
    IF lines = << >> THEN regions
    ELSE ReadRegionsFrom(Tail(lines), PushParsed(regions, Parse(Head(lines))))

ReadPredefinedRegionsFromStdin(is_terminal, lines) ==
    IF is_terminal THEN << >> ELSE ReadRegionsFrom(lines, << >>)

(***************************************************************************)
(* Canvas: the widget state the controllers touch, and the GestureDrag     *)
(* that feeds them.                                                        *)
(***************************************************************************)
VARIABLES
    selection,       \* imp::Canvas.selection
    current_cursor,  \* imp::Canvas.current_cursor
    cursor_log,      \* the widget's cursor: set_cursor calls of the handler run last,
                     \* the identity applied last, the identity requested last
    cursor_x,        \* imp::Canvas.cursor_x
    cursor_y,        \* imp::Canvas.cursor_y
    cursor_inside,   \* imp::Canvas.cursor_inside
    notified,        \* the calls of on_selection_change by the handler run last, as their arguments
    gesture,         \* the GestureDrag: active, start point, offset
    ev,              \* history: the controller event handled last
    pre,             \* history: selection.rect as the last press found it
    arg,             \* function check: the input
    out              \* function check: the result

canvas == <<selection, current_cursor, cursor_log, notified, gesture, ev, pre>>
pointer == <<cursor_x, cursor_y, cursor_inside>>
pure == <<arg, out>>
vars == <<selection, current_cursor, cursor_log, cursor_x, cursor_y, cursor_inside,
          notified, gesture, ev, pre, arg, out>>

GestureIdle == [active |-> FALSE, start |-> <<0, 0>>, offset |-> <<0, 0>>]

\* The pointer position of the gesture: its start point plus its offset
GesturePoint(g) == <<g.start[1] + g.offset[1], g.start[2] + g.offset[2]>>

\* Mutant of NotifySelectionChange: only a valid selection is reported
NotifySelectionChangeGated(s) ==
    IF HasValidSelection(s) THEN <<GetCropRegion(s)>> ELSE << >>

\* notify_selection_change: the calls the callback receives, one, with the crop region
NotifySelectionChange(s) == <<GetCropRegion(s)>>

\* set_cursor_by_name: the cached identity after the call
SetCursorByName(current, name) == IF current = name THEN current ELSE name

\* init_cursors: the names with a cached gdk::Cursor (Cursor::from_name gives
\* one for every name)
CursorNames ==
    {"default", "crosshair", "pointer", "grab", "grabbing",
     "nw-resize", "ne-resize", "sw-resize", "se-resize",
     "n-resize", "s-resize", "e-resize", "w-resize"}

\* Mutant of SetCursorCalls: the cursor is applied on every request
SetCursorCallsAlways(current, name) == <<name>>

\* set_cursor_by_name: the set_cursor calls it makes on the widget
SetCursorCalls(current, name) ==
    IF current = name THEN << >>
    ELSE IF name \in CursorNames THEN <<name>>
    ELSE << >>

\* The log after set_cursor_by_name(name) with current cached
CursorRequested(log, current, name) ==
    [calls     |-> SetCursorCalls(current, name),
     last      |-> IF SetCursorCalls(current, name) = << >> THEN log.last ELSE Some(name),
     requested |-> Some(name)]

\* The log after a handler that requests no cursor
NoCursorRequested(log) == [log EXCEPT !.calls = << >>]

\* Canvas::set_pixbuf, Canvas::set_predefined_regions, Canvas::setup_controllers
CanvasInit(screen_width, screen_height, regions) ==
    /\ selection = [NewSelection(screen_width, screen_height)
                       EXCEPT !.predefined_regions = regions]
    /\ current_cursor = "default"
    /\ cursor_log = [calls |-> << >>, last |-> None, requested |-> None]
    /\ cursor_inside = TRUE
    /\ notified = << >>
    /\ gesture = GestureIdle
    /\ ev = "init"
    /\ pre = None

\* connect_drag_begin: the primary button goes down at (x, y)
DragBegin(x, y) ==
    /\ ~gesture.active
    /\ gesture' = [active |-> TRUE, start |-> <<x, y>>, offset |-> <<0, 0>>]
    /\ pre' = selection.rect
    /\ IF ~IsSome(selection.rect) /\ IsSome(FindPredefinedRegionAt(selection, x, y))
       THEN /\ selection' = SelectPredefinedRegion(
                                selection, Unwrap(FindPredefinedRegionAt(selection, x, y)))
            /\ UNCHANGED current_cursor
            /\ cursor_log' = NoCursorRequested(cursor_log)
            /\ ev' = "press_region"
       ELSE /\ selection' = StartDrag(selection, x, y)
            /\ current_cursor' = SetCursorByName(current_cursor,
                                     CursorForPosition(StartDrag(selection, x, y), x, y))
            /\ cursor_log' = CursorRequested(cursor_log, current_cursor,
                                     CursorForPosition(StartDrag(selection, x, y), x, y))
            /\ ev' = "press"
    /\ notified' = NotifySelectionChange(selection')
    /\ UNCHANGED <<pointer, pure>>

\* connect_drag_update: the pointer moves to (x, y) with the button down
DragUpdate(x, y) ==
    /\ gesture.active
    /\ gesture' = [gesture EXCEPT !.offset = <<x - gesture.start[1], y - gesture.start[2]>>]
    /\ selection' = UpdateDrag(selection, GesturePoint(gesture')[1], GesturePoint(gesture')[2])
    /\ notified' = NotifySelectionChange(selection')
    /\ ev' = "update"
    /\ cursor_log' = NoCursorRequested(cursor_log)
    /\ UNCHANGED <<current_cursor, pre>>
    /\ UNCHANGED <<pointer, pure>>

\* connect_drag_end: the button goes up.  In the history a release that
\* directly follows its press is a "click", a "click_region" when the press
\* selected a predefined region.
DragEnd ==
    /\ gesture.active
    /\ selection' = EndDrag(selection)
    /\ current_cursor' = SetCursorByName(current_cursor,
                             CursorForPosition(EndDrag(selection),
                                               gesture.start[1], gesture.start[2]))
    /\ cursor_log' = CursorRequested(cursor_log, current_cursor,
                             CursorForPosition(EndDrag(selection),
                                               gesture.start[1], gesture.start[2]))
    /\ notified' = NotifySelectionChange(selection')
    /\ gesture' = GestureIdle
    /\ ev' = IF ev = "press" THEN "click"
             ELSE IF ev = "press_region" THEN "click_region"
             ELSE "release"
    /\ UNCHANGED pre
    /\ UNCHANGED <<pointer, pure>>

\* Canvas::select_all (Ctrl+A), whatever the gesture is doing
\* Mutant of SelectAll: the selection is made as a finished drag
SelectAllEndsDrag ==
    /\ selection' = [selection EXCEPT
                        !.rect = Some(Rect(0, 0, selection.screen_width,
                                           selection.screen_height)),
                        !.drag_mode = DragNone,
                        !.drag_start_rect = None]
    /\ notified' = NotifySelectionChange(selection')
    /\ ev' = "select_all"
    /\ cursor_log' = NoCursorRequested(cursor_log)
    /\ UNCHANGED <<current_cursor, gesture, pre>>
    /\ UNCHANGED <<pointer, pure>>

SelectAll ==
    /\ selection' = [selection EXCEPT
                        !.rect = Some(Rect(0, 0, selection.screen_width,
                                           selection.screen_height))]
    /\ notified' = NotifySelectionChange(selection')
    /\ ev' = "select_all"
    /\ cursor_log' = NoCursorRequested(cursor_log)
    /\ UNCHANGED <<current_cursor, gesture, pre>>
    /\ UNCHANGED <<pointer, pure>>

\* connect_realize: the pointer position is read from the seat, when there is one
Realized(p) ==
    /\ cursor_x = p[1]
    /\ cursor_y = p[2]

\* Mutant of MotionCursor: a hovered region forces the pointer, rect or not
MotionCursorHoveredOnly(s, x, y) ==
    IF IsSome(s.hovered_region) THEN "pointer"
    ELSE CursorForPosition(s, x, y)

\* The name connect_motion requests at (x, y) for the Selection s it has updated
MotionCursor(s, x, y) ==
    IF IsSome(s.hovered_region) /\ ~IsSome(s.rect) THEN "pointer"
    ELSE CursorForPosition(s, x, y)

\* connect_motion: the pointer moves to (x, y), button down or not
Motion(x, y) ==
    /\ cursor_x' = x
    /\ cursor_y' = y
    /\ selection' = UpdateHoveredRegion(selection, x, y)
    /\ current_cursor' = SetCursorByName(current_cursor, MotionCursor(selection', x, y))
    /\ cursor_log' = CursorRequested(cursor_log, current_cursor,
                                     MotionCursor(selection', x, y))
    /\ notified' = << >>
    /\ ev' = "motion"
    /\ UNCHANGED <<cursor_inside, gesture, pre>>
    /\ UNCHANGED pure

\* connect_enter: the pointer comes onto the widget at (x, y)
Enter(x, y) ==
    /\ cursor_inside' = TRUE
    /\ cursor_x' = x
    /\ cursor_y' = y
    /\ cursor_log' = NoCursorRequested(cursor_log)
    /\ notified' = << >>
    /\ ev' = "enter"
    /\ UNCHANGED <<selection, current_cursor, gesture, pre>>
    /\ UNCHANGED pure

\* connect_leave: the pointer leaves the widget
Leave ==
    /\ cursor_inside' = FALSE
    /\ cursor_log' = NoCursorRequested(cursor_log)
    /\ notified' = << >>
    /\ ev' = "leave"
    /\ UNCHANGED <<selection, current_cursor, cursor_x, cursor_y, gesture, pre>>
    /\ UNCHANGED pure

(***************************************************************************)
(* Canvas::snapshot: whether the crosshair and magnifier are drawn, and on *)
(* which point.                                                            *)
(***************************************************************************)
\* cx, cy stand for the cursor_x, cursor_y the functions are given.
\* Mutant of GetSnapPosition: the magnifier follows the raw cursor
GetSnapPositionRaw(sel_rect, drag_mode, cx, cy) == <<cx, cy>>

GetSnapPosition(sel_rect, drag_mode, cx, cy) ==
    IF drag_mode = Creating THEN <<cx, cy>>
    ELSE IF drag_mode.kind = "Resizing" THEN
        CASE drag_mode.edge = "TopLeft" -> <<sel_rect.x, sel_rect.y>>
          [] drag_mode.edge = "TopRight" -> <<sel_rect.x + sel_rect.width, sel_rect.y>>
          [] drag_mode.edge = "BottomRight" ->
                <<sel_rect.x + sel_rect.width, sel_rect.y + sel_rect.height>>
          [] drag_mode.edge = "BottomLeft" -> <<sel_rect.x, sel_rect.y + sel_rect.height>>
          [] drag_mode.edge = "Top" -> <<cx, sel_rect.y>>
          [] drag_mode.edge = "Bottom" -> <<cx, sel_rect.y + sel_rect.height>>
          [] drag_mode.edge = "Left" -> <<sel_rect.x, cy>>
          [] drag_mode.edge = "Right" -> <<sel_rect.x + sel_rect.width, cy>>
    ELSE <<cx, cy>>

\* Mutant of MagnifierWhileIdle: anywhere outside the rect
MagnifierWhileIdleOutside(s, sel_rect, cx, cy) ==
    ~Contains(sel_rect, cx, cy)

\* The DragMode::None arm: outside the rect, where a click would create
MagnifierWhileIdle(s, sel_rect, cx, cy) ==
    /\ ~Contains(sel_rect, cx, cy)
    /\ HitTest(s, cx, cy) = Creating

\* The predefined regions snapshot draws, in order, each with its highlight
SnapshotPredefinedRegions(s) ==
    IF IsSome(s.rect) THEN << >>
    ELSE [i \in 1 .. Len(s.predefined_regions) |->
             [region     |-> s.predefined_regions[i],
              is_hovered |-> s.hovered_region = Some(i - 1)]]

\* The point draw_crosshair_and_magnifier is called with, if it is called
SnapshotMagnifier(s, cx, cy, inside) ==
    IF IsSome(s.rect)
    THEN LET sel_rect == Normalized(Unwrap(s.rect))
         IN  IF ~inside THEN None
             ELSE IF s.drag_mode = DragNone
                 THEN IF MagnifierWhileIdle(s, sel_rect, cx, cy)
                      THEN Some(<<cx, cy>>)
                      ELSE None
             ELSE IF s.drag_mode = Creating \/ s.drag_mode.kind = "Resizing"
                 THEN Some(GetSnapPosition(sel_rect, s.drag_mode, cx, cy))
             ELSE None
    ELSE IF inside THEN Some(<<cx, cy>>)
    ELSE None

(***************************************************************************)
(* draw_crosshair_and_magnifier: the source window of the magnifier.       *)
(* Pixel indices and counts are i32, here whole numbers; positions on the  *)
(* canvas are f32, here in model units.                                    *)
(***************************************************************************)
pixel_size == 8
pixels_x == 27
pixels_y == 19

\* f32::floor followed by the cast to i32: the pixel a coordinate lies in
FloorPx(v) == v \div Unit

\* Mutant of PartialOffset: the valid sub-window is drawn at the box origin
PartialOffsetNone(valid_src, src) == 0

\* offset_x, offset_y: where in the box the valid sub-window is drawn
PartialOffset(valid_src, src) == Px((valid_src - src) * pixel_size)

\* One axis of the source window: target coordinate, cells, image extent
SourceAxis(target, pixels, pb_size) ==
    LET center_p  == FloorPx(target)
        src       == center_p - (pixels \div 2)
        valid_src == Max(src, 0)
        valid_end == Min(src + pixels, pb_size)
        valid_len == Max(valid_end - valid_src, 0)
    IN  [center |-> center_p, src |-> src, valid_src |-> valid_src,
         valid_len |-> valid_len, offset |-> PartialOffset(valid_src, src),
         drawn_len |-> Px(valid_len * pixel_size)]

\* The texture appended for the target (tx, ty) on an image pb_width x pb_height:
\* the sub-pixbuf sampled and the rect, relative to the box, it is drawn in
MagnifierSource(tx, ty, pb_width, pb_height) ==
    LET h == SourceAxis(tx, pixels_x, pb_width)
        v == SourceAxis(ty, pixels_y, pb_height)
    IN  [textured |-> h.valid_len > 0 /\ v.valid_len > 0, h |-> h, v |-> v]

\* The box of the magnifier and its distance from the cursor
magnifier_width == Px(pixel_size * pixels_x)
magnifier_height == Px(pixel_size * pixels_y)
magnifier_margin == Px(20)

\* Mutant of MagnifierBoxAxis: no final clamp
MagnifierBoxAxisUnclamped(cursor, size, bound) ==
    IF cursor + magnifier_margin + size > bound
    THEN cursor - magnifier_margin - size
    ELSE cursor + magnifier_margin

\* mag_x from cursor_x and the canvas width, mag_y from cursor_y and the height
MagnifierBoxAxis(cursor, size, bound) ==
    LET mag      == cursor + magnifier_margin
        overflow == mag + size > bound
        placed   == IF overflow THEN cursor - magnifier_margin - size ELSE mag
    IN  Min(Max(placed, 0), bound - size)

\* (mag_x, mag_y)
MagnifierBox(cx, cy, width, height) ==
    <<MagnifierBoxAxis(cx, magnifier_width, width),
      MagnifierBoxAxis(cy, magnifier_height, height)>>

(***************************************************************************)
(* The session on the pointer grid: any order of presses, drags, releases  *)
(* and select-all, with or without predefined regions.                     *)
(***************************************************************************)
\* The pointer grid: steps of half of MIN_SIZE, the screen spanning the grid
Step == MIN_SIZE \div 2
ScreenWidth == MaxGX * Step
ScreenHeight == MaxGY * Step
Points == {<<i * Step, j * Step>> : i \in 0 .. MaxGX, j \in 0 .. MaxGY}

\* Predefined regions a session may be given (Canvas::set_predefined_regions):
\* none, or three of them: an undersized one with half-pixel sizes, a valid one
\* overlapping it, and one that overruns the screen.  Some grid points lie in
\* two regions, some in none.
RegionLists ==
    { << >>,
      << Rect(Px(10), Px(10), Px(10) - 1, Px(10) + 1),
         Rect(0, 0, Px(20), Px(20)),
         Rect(Px(20), Px(20), Px(20), Px(20)) >> }

NoArg == [fn |-> "none"]

Init ==
    /\ \E regions \in RegionLists : CanvasInit(ScreenWidth, ScreenHeight, regions)
    /\ Realized(<<0, 0>>)
    /\ arg = NoArg
    /\ out = None

Press == \E p \in Points : DragBegin(p[1], p[2])
Drag == \E p \in Points : DragUpdate(p[1], p[2])
Release == DragEnd
KeySelectAll == SelectAll

Next ==
    \/ Press
    \/ Drag
    \/ Release
    \/ KeySelectAll

Spec == Init /\ [][Next]_vars

(***************************************************************************)
(* The session with pointer feedback: the events above and, in any order   *)
(* with them, motion, enter and leave, on a few positions: a corner, the   *)
(* interior and the outside of the smallest rect at the origin.            *)
(***************************************************************************)
PointerPoints == {<<0, 0>>, <<Px(10), Px(10)>>, <<Px(30), Px(30)>>}

InitPointer ==
    /\ \E regions \in RegionLists : CanvasInit(Px(30), Px(30), regions)
    /\ \E p \in PointerPoints : Realized(p)
    /\ arg = NoArg
    /\ out = None

PointerPress == \E p \in PointerPoints : DragBegin(p[1], p[2])
PointerDrag == \E p \in PointerPoints : DragUpdate(p[1], p[2])
PointerRelease == DragEnd
PointerSelectAll == SelectAll
PointerMotion == \E p \in PointerPoints : Motion(p[1], p[2])
PointerEnter == \E p \in PointerPoints : Enter(p[1], p[2])
PointerLeave == Leave

NextPointer ==
    \/ PointerPress
    \/ PointerDrag
    \/ PointerRelease
    \/ PointerSelectAll
    \/ PointerMotion
    \/ PointerEnter
    \/ PointerLeave

SpecPointer == InitPointer /\ [][NextPointer]_vars

(***************************************************************************)
(* Function checks: the input is drawn in the initial state, the one       *)
(* action applies the function to it.                                      *)
(***************************************************************************)
CoordInputs == {0 - Px(15), 0, Px(12) + 1, Px(40)}
SizeInputs == {0 - Px(50), 0 - Px(10), 0, Px(10), Px(20), Px(35) + 1, Px(60)}
ScreenInputs == {Px(20), Px(30), Px(50)}
RectInputs ==
    {Rect(x, y, w, h) : x \in CoordInputs, y \in CoordInputs, w \in SizeInputs, h \in SizeInputs}

InitConstrain ==
    /\ CanvasInit(ScreenWidth, ScreenHeight, << >>)
    /\ Realized(<<0, 0>>)
    /\ \E r \in RectInputs, sw \in ScreenInputs, sh \in ScreenInputs :
          arg = [fn |-> "constrain", r |-> r, screen_width |-> sw, screen_height |-> sh]
    /\ out = None

ApplyConstrain ==
    /\ arg.fn = "constrain"
    /\ out = None
    /\ out' = Some(Constrain(arg.r, arg.screen_width, arg.screen_height))
    /\ UNCHANGED <<arg, canvas, pointer>>

SpecConstrain == InitConstrain /\ [][ApplyConstrain]_vars

\* hit_test: no rect, finalized rects, one with half-pixel coordinates, one of
\* negative size (a creation under way) and one smaller than a handle; the
\* points are the whole pixels in and around them.
HitRectInputs ==
    { None,
      Some(Rect(Px(10), Px(10), Px(20), Px(20))),
      Some(Rect(0, 0, Px(30), Px(20))),
      Some(Rect(Px(5) + 1, Px(8), Px(24) + 1, Px(21))),
      Some(Rect(Px(30), Px(30), 0 - Px(20), 0 - Px(20))),
      Some(Rect(Px(12), Px(12), Px(6), Px(6))) }
HitCoordInputs == {Px(i) : i \in (0 - 10) .. 40}

InitHitTest ==
    /\ CanvasInit(ScreenWidth, ScreenHeight, << >>)
    /\ Realized(<<0, 0>>)
    /\ \E r \in HitRectInputs, x \in HitCoordInputs, y \in HitCoordInputs :
          arg = [fn |-> "hit_test", rect |-> r, x |-> x, y |-> y]
    /\ out = None

ApplyHitTest ==
    /\ arg.fn = "hit_test"
    /\ out = None
    /\ out' = Some(HitTest([NewSelection(Px(30), Px(30)) EXCEPT !.rect = arg.rect],
                           arg.x, arg.y))
    /\ UNCHANGED <<arg, canvas, pointer>>

SpecHitTest == InitHitTest /\ [][ApplyHitTest]_vars

\* cursor_for_position next to hit_test: the same rects and points, in every
\* drag mode
InitCursorForPosition ==
    /\ CanvasInit(ScreenWidth, ScreenHeight, << >>)
    /\ Realized(<<0, 0>>)
    /\ \E r \in HitRectInputs, m \in DragMode, x \in HitCoordInputs, y \in HitCoordInputs :
          arg = [fn |-> "cursor_for_position", rect |-> r, drag_mode |-> m,
                 x |-> x, y |-> y]
    /\ out = None

ApplyCursorForPosition ==
    /\ arg.fn = "cursor_for_position"
    /\ out = None
    /\ LET s == [NewSelection(Px(30), Px(30)) EXCEPT !.rect = arg.rect,
                                                    !.drag_mode = arg.drag_mode]
       IN  out' = Some([cursor |-> CursorForPosition(s, arg.x, arg.y),
                        mode   |-> HitTest(s, arg.x, arg.y)])
    /\ UNCHANGED <<arg, canvas, pointer>>

SpecCursorForPosition == InitCursorForPosition /\ [][ApplyCursorForPosition]_vars

\* snapshot: the same rects and points, every drag mode, pointer inside or not
InitSnapshot ==
    /\ CanvasInit(ScreenWidth, ScreenHeight, << >>)
    /\ Realized(<<0, 0>>)
    /\ \E r \in HitRectInputs, m \in DragMode, x \in HitCoordInputs, y \in HitCoordInputs,
          inside \in BOOLEAN :
          arg = [fn |-> "snapshot", rect |-> r, drag_mode |-> m, cursor_x |-> x,
                 cursor_y |-> y, cursor_inside |-> inside]
    /\ out = None

\* The Selection a function check is given: its rect and drag mode
SelectionOf(a) ==
    [NewSelection(Px(30), Px(30)) EXCEPT !.rect = a.rect, !.drag_mode = a.drag_mode]

ApplySnapshot ==
    /\ arg.fn = "snapshot"
    /\ out = None
    /\ out' = Some([magnifier |-> SnapshotMagnifier(SelectionOf(arg), arg.cursor_x,
                                                    arg.cursor_y, arg.cursor_inside)])
    /\ UNCHANGED <<arg, canvas, pointer>>

SpecSnapshot == InitSnapshot /\ [][ApplySnapshot]_vars

\* The source window: images narrower, as wide as and wider than the window,
\* targets at half-pixel steps from before the image to beyond it
ImageWidths == {1, 5, 13, 14, 27, 40}
ImageHeights == {1, 9, 10, 19, 30}
TargetXs == (0 - Px(2)) .. Px(41)
TargetYs == (0 - Px(2)) .. Px(31)

InitMagnifierSource ==
    /\ CanvasInit(ScreenWidth, ScreenHeight, << >>)
    /\ Realized(<<0, 0>>)
    /\ \E tx \in TargetXs, ty \in TargetYs, w \in ImageWidths, h \in ImageHeights :
          arg = [fn |-> "magnifier_source", tx |-> tx, ty |-> ty,
                 pb_width |-> w, pb_height |-> h]
    /\ out = None

ApplyMagnifierSource ==
    /\ arg.fn = "magnifier_source"
    /\ out = None
    /\ out' = Some(MagnifierSource(arg.tx, arg.ty, arg.pb_width, arg.pb_height))
    /\ UNCHANGED <<arg, canvas, pointer>>

SpecMagnifierSource == InitMagnifierSource /\ [][ApplyMagnifierSource]_vars

\* The box: canvases as large as the box, one pixel larger and larger; cursors
\* every 4 pixels and half a pixel further, from outside the canvas across it
CanvasWidths == {Px(216), Px(217), Px(300), Px(500)}
CanvasHeights == {Px(152), Px(153), Px(200), Px(400)}
BoxCursorXs == {Px(4 * i) : i \in (0 - 3) .. 128} \cup {Px(4 * i) + 1 : i \in (0 - 3) .. 128}
BoxCursorYs == {Px(4 * i) : i \in (0 - 3) .. 102} \cup {Px(4 * i) + 1 : i \in {0 - 3, 0, 7, 12, 57}}

InitMagnifierBox ==
    /\ CanvasInit(ScreenWidth, ScreenHeight, << >>)
    /\ Realized(<<0, 0>>)
    /\ \E x \in BoxCursorXs, y \in BoxCursorYs, w \in CanvasWidths, h \in CanvasHeights :
          arg = [fn |-> "magnifier_box", cx |-> x, cy |-> y, width |-> w, height |-> h]
    /\ out = None

ApplyMagnifierBox ==
    /\ arg.fn = "magnifier_box"
    /\ out = None
    /\ out' = Some(MagnifierBox(arg.cx, arg.cy, arg.width, arg.height))
    /\ UNCHANGED <<arg, canvas, pointer>>

SpecMagnifierBox == InitMagnifierBox /\ [][ApplyMagnifierBox]_vars

\* get_crop_region and has_valid_selection: no rect, and rects of either sign
\* of size, smaller than MIN_SIZE, at it and larger than the screen
CropSizeInputs ==
    {0 - Px(50), 0 - Px(20), 1 - Px(20), 0 - Px(10), 0, Px(10), Px(20) - 1, Px(20),
     Px(35) + 1, Px(60)}
CropRectInputs ==
    {None} \cup {Some(Rect(x, y, w, h)) :
                    x \in CoordInputs, y \in CoordInputs,
                    w \in CropSizeInputs, h \in CropSizeInputs}

InitCropRegion ==
    /\ CanvasInit(ScreenWidth, ScreenHeight, << >>)
    /\ Realized(<<0, 0>>)
    /\ \E r \in CropRectInputs : arg = [fn |-> "get_crop_region", rect |-> r]
    /\ out = None

ApplyCropRegion ==
    /\ arg.fn = "get_crop_region"
    /\ out = None
    /\ LET s == [NewSelection(ScreenWidth, ScreenHeight) EXCEPT !.rect = arg.rect]
       IN  out' = Some([crop |-> GetCropRegion(s), valid |-> HasValidSelection(s)])
    /\ UNCHANGED <<arg, canvas, pointer>>

SpecCropRegion == InitCropRegion /\ [][ApplyCropRegion]_vars

\* normalized and contains: rects of either sign of size, and points on, beside
\* and between the sides
SideInputs == {x + w : x \in {0, Px(12) + 1}, w \in SizeInputs \cup {0 - 1, 1, Px(5)}}
NormalizedInputs ==
    {Rect(x, y, w, h) : x \in {0, Px(12) + 1}, y \in {0, Px(12) + 1},
                        w \in SizeInputs, h \in SizeInputs}

InitNormalized ==
    /\ CanvasInit(ScreenWidth, ScreenHeight, << >>)
    /\ Realized(<<0, 0>>)
    /\ \E r \in NormalizedInputs, px \in SideInputs, py \in SideInputs :
          arg = [fn |-> "normalized", r |-> r, px |-> px, py |-> py]
    /\ out = None

ApplyNormalized ==
    /\ arg.fn = "normalized"
    /\ out = None
    /\ out' = Some([normalized |-> Normalized(arg.r),
                    twice      |-> Normalized(Normalized(arg.r)),
                    contains   |-> Contains(arg.r, arg.px, arg.py),
                    normalized_contains |-> Contains(Normalized(arg.r), arg.px, arg.py)])
    /\ UNCHANGED <<arg, canvas, pointer>>

SpecNormalized == InitNormalized /\ [][ApplyNormalized]_vars

\* Lines of text: four number texts with a separator after each of the first
\* three, between a lead and a trail; and whole lines for the lists
NumberTexts ==
    {Text(<<"1", "0">>), Text(<<"1", "1", "0">>), Text(<<"-", "5">>),
     Text(<<"0", ".", "5">>), << >>, Text(<<"b", "a", "d">>)}
PairSeparators == {Text(<<",">>), Text(<<" ">>)}
TokenSeparators == {Text(<<" ">>), <<Named.tab>> \o Text(<<" ">>), Text(<<",">>)}
Leads == {<< >>, Text(<<" ">>)}
Trails == {<< >>, Text(<<" ", "0">>)}
BuiltLines ==
    {lead \o n1 \o s1 \o n2 \o s2 \o n3 \o s3 \o n4 \o trail :
        lead \in Leads, n1 \in NumberTexts, s1 \in PairSeparators, n2 \in NumberTexts,
        s2 \in TokenSeparators, n3 \in NumberTexts, s3 \in PairSeparators,
        n4 \in NumberTexts, trail \in Trails}
CornersLine == Text(<<"1", "0", ",", "1", "0", " ", "1", "1", "0", ",", "1", "1", "0">>)
BadLine == Text(<<"b", "a", "d">>)
SlurpLine ==
    Text(<<"1", "0", "0", ",", "2", "0", "0", " ", "8", "0", "0", "x", "6", "0", "0">>)
SlurpAsCornersLine ==
    Text(<<"1", "0", "0", ",", "2", "0", "0", " ", "9", "0", "0", ",", "8", "0", "0">>)
\* "0,0 1e2,1E+2"
ExponentLine == Text(<<"0", ",", "0", " ", "1", "e", "2", ",", "1", "E", "+", "2">>)
\* "10,10\f110,110\r": a form feed between the corners, a carriage return at the end
FormFeedLine ==
    Text(<<"1", "0", ",", "1", "0">>) \o <<Named.form_feed>>
        \o Text(<<"1", "1", "0", ",", "1", "1", "0">>) \o <<Named.carriage_return>>
\* "10,10" U+1680 "110,110" U+3000: whitespace above U+00FF
OghamLine ==
    Text(<<"1", "0", ",", "1", "0">>) \o <<Named.ogham_space_mark>>
        \o Text(<<"1", "1", "0", ",", "1", "1", "0">>) \o <<Named.ideographic_space>>
\* "0,0 inf,Infinity"
InfiniteLine ==
    Text(<<"0", ",", "0", " ", "i", "n", "f", ",", "I", "n", "f", "i", "n", "i", "t", "y">>)
\* "NaN,0 5,5"
NaNLine == Text(<<"N", "a", "N", ",", "0", " ", "5", ",", "5">>)
\* "inf,0 inf,5": the width is inf - inf
InfiniteCornersLine == Text(<<"i", "n", "f", ",", "0", " ", "i", "n", "f", ",", "5">>)
\* "0,0 0.2,.2"
OffGridLine == Text(<<"0", ",", "0", " ", "0", ".", "2", ",", ".", "2">>)
\* "0.3,0 0.2,1": the width is negative
OffGridNegativeLine == Text(<<"0", ".", "3", ",", "0", " ", "0", ".", "2", ",", "1">>)
\* "16777216,0 16777217,5": both x read as 2^24, the width is 0
RoundedAwayLine ==
    Text(<<"1", "6", "7", "7", "7", "2", "1", "6", ",", "0", " ",
           "1", "6", "7", "7", "7", "2", "1", "7", ",", "5">>)
\* "-16777216,0 1,1": the width 16777217 is rounded to 2^24
RoundedWidthLine ==
    Text(<<"-", "1", "6", "7", "7", "7", "2", "1", "6", ",", "0", " ", "1", ",", "1">>)
\* "0,0 4e38,1": above f32::MAX, the width is inf
OverflowLine == Text(<<"0", ",", "0", " ", "4", "e", "3", "8", ",", "1">>)
\* "0,0 1,5e-46": below half the least positive f32, the height is 0
UnderflowLine == Text(<<"0", ",", "0", " ", "1", ",", "5", "e", "-", "4", "6">>)
\* "8388608,0 8388608.5,1": the tie 8388608.5 reads as the even 8388608
TieLine ==
    Text(<<"8", "3", "8", "8", "6", "0", "8", ",", "0", " ",
           "8", "3", "8", "8", "6", "0", "8", ".", "5", ",", "1">>)
\* "0.1,0 0.3,1": neither x is an f32 value, nor is their difference 0.2
TenthsLine == Text(<<"0", ".", "1", ",", "0", " ", "0", ".", "3", ",", "1">>)
\* "0,0 0.0...01e10050,5", 10050 zeros after the point: the number is
\* 10^-10051 * 10^10050 and the width is the f32 of 0.1
LongExponentLine ==
    Text(<<"0", ",", "0", " ", "0", ".">>) \o [i \in 1 .. 10050 |-> DigitZero]
        \o Text(<<"1", "e", "1", "0", "0", "5", "0", ",", "5">>)
\* "0,0 0.0...01e655360,5", 65535 zeros after the point: the exponent is read
\* as 65536, its last digit passed over, and the width is 10^-65536 * 10^65536
SaturatedExponentLine ==
    Text(<<"0", ",", "0", " ", "0", ".">>) \o [i \in 1 .. 65535 |-> DigitZero]
        \o Text(<<"1", "e", "6", "5", "5", "3", "6", "0", ",", "5">>)
SampleLines == {CornersLine, BadLine, SlurpLine, SlurpAsCornersLine,
                Text(<<"5", ",", "5", " ", "5", ",", "9">>), << >>,
                ExponentLine, FormFeedLine, OghamLine, InfiniteLine, NaNLine,
                InfiniteCornersLine, OffGridLine, OffGridNegativeLine}
\* Lines whose numbers f32 rounds, overflows or underflows, and lines whose
\* exponents make up for a long run of zeros
ExtremeLines ==
    {RoundedAwayLine, RoundedWidthLine, OverflowLine, UnderflowLine, TieLine, TenthsLine,
     LongExponentLine, SaturatedExponentLine}
LineLists ==
    {<<l>> : l \in BuiltLines \cup SampleLines \cup ExtremeLines}
        \cup {<< >>, <<OghamLine, OverflowLine>>,
              <<RoundedAwayLine, RoundedWidthLine, UnderflowLine>>,
              <<TieLine, TenthsLine>>,
              <<LongExponentLine, SaturatedExponentLine>>}
        \cup {<<a, b>> : a \in SampleLines, b \in SampleLines}
        \cup {<<a, b, c>> : a \in SampleLines, b \in SampleLines, c \in SampleLines}

\* Piped input, and a terminal on which the lines would be typed
ReadInputs ==
    {[is_terminal |-> FALSE, lines |-> ls] : ls \in LineLists}
        \cup {[is_terminal |-> TRUE, lines |-> <<a, b>>] : a \in SampleLines, b \in SampleLines}

InitReadRegions ==
    /\ CanvasInit(ScreenWidth, ScreenHeight, << >>)
    /\ Realized(<<0, 0>>)
    /\ \E in \in ReadInputs :
          arg = [fn |-> "read_predefined_regions_from_stdin",
                 is_terminal |-> in.is_terminal, lines |-> in.lines]
    /\ out = None

ApplyReadRegions ==
    /\ arg.fn = "read_predefined_regions_from_stdin"
    /\ out = None
    /\ out' = Some(ReadPredefinedRegionsFromStdin(arg.is_terminal, arg.lines))
    /\ UNCHANGED <<arg, canvas, pointer>>

SpecReadRegions == InitReadRegions /\ [][ApplyReadRegions]_vars

(***************************************************************************)
(* Call sequences on one Selection: the input is a starting rect and a     *)
(* script of calls; each action applies the next call of the script and    *)
(* logs the Selection it leaves.                                           *)
(***************************************************************************)
StartCall(p) == [op |-> "start_drag", x |-> p[1], y |-> p[2]]
UpdateCall(p) == [op |-> "update_drag", x |-> p[1], y |-> p[2]]
EndCall == [op |-> "end_drag"]
SelectCall(i) == [op |-> "select_predefined_region", index |-> i]
HoverCall(p) == [op |-> "update_hovered_region", x |-> p[1], y |-> p[2]]
SelectAllCall == [op |-> "select_all"]

\* The pointer grid and two points off it, so that a handle or an edge is also
\* grabbed off its centre
CallPoints == Points \cup {<<Px(3), Px(4) + 1>>, <<Px(23), Px(17)>>}
\* Where the earlier of two updates goes
EarlierPoints == {<<0, 0>>, <<Px(3), Px(4) + 1>>, <<ScreenWidth, Step>>, <<Step, ScreenHeight>>}

\* Starting rects: none, finalized ones, and ones only select_predefined_region
\* or a creation under way can leave (undersized, off the screen, negative)
CallRects ==
    { None,
      Some(Rect(0, 0, Px(20), Px(20))),
      Some(Rect(Px(10), Px(10), Px(20), Px(20))),
      Some(Rect(0, 0, Px(20), Px(30))),
      Some(Rect(0, 0, ScreenWidth, ScreenHeight)),
      Some(Rect(Px(10), Px(10), Px(10) - 1, Px(10) + 1)),
      Some(Rect(Px(20), Px(20), Px(20), Px(20))),
      Some(Rect(Px(30), Px(30), 0 - Px(20), 0 - Px(20))) }

CallRegions ==
    << Rect(Px(10), Px(10), Px(10) - 1, Px(10) + 1),
       Rect(0, 0, Px(20), Px(20)),
       Rect(Px(20), Px(20), Px(20), Px(20)),
       Rect(Px(2) + 1, Px(3) - 1, Px(25) + 1, Px(24) + 1) >>

\* One gesture without, with one and with two updates; a gesture followed by
\* the gesture that undoes it; one region selection, by a valid index or not
GridScripts ==
    {<<StartCall(p), EndCall>> : p \in CallPoints}
    \cup {<<StartCall(p), UpdateCall(q), EndCall>> : p \in CallPoints, q \in CallPoints}
    \cup {<<StartCall(p), UpdateCall(q), UpdateCall(q2), EndCall>> :
              p \in CallPoints, q \in EarlierPoints, q2 \in CallPoints}
    \cup {<<StartCall(p), UpdateCall(q), EndCall, StartCall(q), UpdateCall(p), EndCall>> :
              p \in CallPoints, q \in CallPoints}
    \cup {<<SelectCall(i)>> : i \in 0 .. Len(CallRegions)}
    \cup {<<UpdateCall(q)>> : q \in CallPoints}
    \cup {<<StartCall(p), SelectAllCall, EndCall>> : p \in CallPoints}
    \cup {<<StartCall(p), SelectAllCall, UpdateCall(q), EndCall>> :
              p \in CallPoints, q \in CallPoints}
    \cup {<<StartCall(p), UpdateCall(q), SelectAllCall, UpdateCall(q2), EndCall>> :
              p \in CallPoints, q \in EarlierPoints, q2 \in EarlierPoints}
    \cup {<<HoverCall(p), HoverCall(q)>> : p \in CallPoints, q \in CallPoints}
    \cup {<<HoverCall(p), SelectCall(i)>> : p \in CallPoints, i \in 0 .. Len(CallRegions) + 1}
    \cup {<<StartCall(p), UpdateCall(q), SelectCall(i)>> :
              p \in CallPoints, q \in EarlierPoints, i \in 0 .. Len(CallRegions) + 1}

\* The worked scenarios: a 1920x1080 screen, no rect or the rect (100,100,400,300)
ScenarioWidth == Px(1920)
ScenarioHeight == Px(1080)
ScenarioRect == Rect(Px(100), Px(100), Px(400), Px(300))
ScenarioScripts ==
    { <<StartCall(<<Px(100), Px(100)>>), UpdateCall(<<Px(500), Px(400)>>), EndCall>>,
      <<StartCall(<<Px(100), Px(100)>>), UpdateCall(<<Px(150), Px(150)>>), EndCall>>,
      <<StartCall(<<Px(500), Px(250)>>), UpdateCall(<<Px(600), Px(250)>>),
        UpdateCall(<<Px(500), Px(250)>>), EndCall>>,
      <<StartCall(<<Px(500), Px(250)>>), UpdateCall(<<Px(600), Px(250)>>), EndCall,
        StartCall(<<Px(600), Px(250)>>), UpdateCall(<<Px(500), Px(250)>>), EndCall>> }

\* The smallest screen that holds a selection: clicks and one-update gestures
SmallestWidth == MIN_SIZE
SmallestHeight == MIN_SIZE
SmallestPoints == {<<0, 0>>, <<Px(10), Px(10)>>, <<Px(20), 0>>, <<Px(20), Px(20)>>}
SmallestScripts ==
    {<<StartCall(p), EndCall>> : p \in SmallestPoints}
    \cup {<<StartCall(p), UpdateCall(q), EndCall>> : p \in SmallestPoints, q \in SmallestPoints}

CallsArg(screen_width, screen_height, rect, calls) ==
    [fn |-> "calls", screen_width |-> screen_width, screen_height |-> screen_height,
     regions |-> CallRegions, rect |-> rect, calls |-> calls]

\* The Selection the script starts from
CallsStart(a) ==
    [WithPredefinedRegions(a.screen_width, a.screen_height, a.regions)
        EXCEPT !.rect = a.rect]

InitCalls ==
    /\ CanvasInit(ScreenWidth, ScreenHeight, << >>)
    /\ Realized(<<0, 0>>)
    /\ \/ \E r \in CallRects, c \in GridScripts :
              arg = CallsArg(ScreenWidth, ScreenHeight, r, c)
       \/ \E r \in {None, Some(ScenarioRect)}, c \in ScenarioScripts :
              arg = CallsArg(ScenarioWidth, ScenarioHeight, r, c)
       \/ \E r \in {None, Some(Rect(0, 0, SmallestWidth, SmallestHeight))},
              c \in SmallestScripts :
              arg = CallsArg(SmallestWidth, SmallestHeight, r, c)
    /\ out = [pc |-> 1, s |-> CallsStart(arg), log |-> << >>, returned |-> << >>]

\* The next call of the script is op
NextCallIs(op) ==
    /\ arg.fn = "calls"
    /\ out.pc <= Len(arg.calls)
    /\ arg.calls[out.pc].op = op

\* The call has left the Selection t and returned r
CalledReturning(t, r) ==
    /\ out' = [pc |-> out.pc + 1, s |-> t, log |-> Append(out.log, t),
               returned |-> Append(out.returned, r)]
    /\ UNCHANGED <<arg, canvas, pointer>>

\* The call has left the Selection t; it returns nothing
Called(t) == CalledReturning(t, None)

CallStartDrag ==
    /\ NextCallIs("start_drag")
    /\ Called(StartDrag(out.s, arg.calls[out.pc].x, arg.calls[out.pc].y))

CallUpdateDrag ==
    /\ NextCallIs("update_drag")
    /\ Called(UpdateDrag(out.s, arg.calls[out.pc].x, arg.calls[out.pc].y))

CallEndDrag ==
    /\ NextCallIs("end_drag")
    /\ Called(EndDrag(out.s))

CallSelectPredefinedRegion ==
    /\ NextCallIs("select_predefined_region")
    /\ CalledReturning(SelectPredefinedRegion(out.s, arg.calls[out.pc].index),
                       Some(SelectPredefinedRegionReturns(out.s, arg.calls[out.pc].index)))

\* Canvas::select_all on the Selection of the script: the rect is the
\* screen, and the change is notified
CallSelectAll ==
    /\ NextCallIs("select_all")
    /\ LET t == [out.s EXCEPT !.rect = Some(Rect(0, 0, out.s.screen_width,
                                                 out.s.screen_height))]
       IN  /\ out' = [pc |-> out.pc + 1, s |-> t, log |-> Append(out.log, t),
                      returned |-> Append(out.returned, None)]
           /\ notified' = NotifySelectionChange(t)
    /\ ev' = "select_all"
    /\ cursor_log' = NoCursorRequested(cursor_log)
    /\ UNCHANGED <<selection, current_cursor, gesture, pre>>
    /\ UNCHANGED <<arg, pointer>>

CallUpdateHoveredRegion ==
    /\ NextCallIs("update_hovered_region")
    /\ Called(UpdateHoveredRegion(out.s, arg.calls[out.pc].x, arg.calls[out.pc].y))

NextCalls ==
    \/ CallStartDrag
    \/ CallUpdateDrag
    \/ CallEndDrag
    \/ CallSelectPredefinedRegion
    \/ CallUpdateHoveredRegion
    \/ CallSelectAll

SpecCalls == InitCalls /\ [][NextCalls]_vars

(***************************************************************************)
(* The borrows of the Selection's RefCell. Each handler is the sequence of  *)
(* its steps in the order of its code: borrow_mut and borrow take the       *)
(* RefCell, release drops the borrow taken last, write and read use it;     *)
(* set_cursor, queue_draw and callback are the calls out of the handler.    *)
(* The handlers run one at a time, each to its end; a queued redraw runs    *)
(* snapshot between two of them. A borrow the RefCell refuses is a panic.   *)
(***************************************************************************)
\* notify_selection_change: get_crop_region in a temporary borrow, then the callback
NotifySteps == <<"borrow", "read", "release", "callback">>

DragBeginRegionSteps ==
    <<"borrow_mut", "read", "write", "release", "queue_draw">> \o NotifySteps

DragBeginSteps ==
    <<"borrow_mut", "read", "write", "read", "release", "set_cursor", "queue_draw">>
        \o NotifySteps

DragUpdateSteps == <<"borrow_mut", "write", "release", "queue_draw">> \o NotifySteps

DragEndSteps ==
    <<"borrow_mut", "write", "read", "release", "set_cursor", "queue_draw">> \o NotifySteps

MotionSteps ==
    <<"borrow_mut", "write", "release", "borrow", "read", "release", "set_cursor",
      "queue_draw">>

EnterSteps == <<"queue_draw">>

LeaveSteps == <<"queue_draw">>

\* Mutant of SelectAllSteps: the borrow lives to the end of the function
SelectAllStepsBorrowKept ==
    <<"borrow_mut", "write", "queue_draw">> \o NotifySteps \o <<"release">>

SelectAllSteps == <<"borrow_mut", "write", "release", "queue_draw">> \o NotifySteps

\* snapshot holds one borrow from its start to its end
SnapshotSteps == <<"borrow", "read", "read", "release">>

HandlerSteps(h) ==
    CASE h = "drag_begin_region" -> DragBeginRegionSteps
      [] h = "drag_begin" -> DragBeginSteps
      [] h = "drag_update" -> DragUpdateSteps
      [] h = "drag_end" -> DragEndSteps
      [] h = "motion" -> MotionSteps
      [] h = "enter" -> EnterSteps
      [] h = "leave" -> LeaveSteps
      [] h = "select_all" -> SelectAllSteps
      [] h = "snapshot" -> SnapshotSteps

Handlers ==
    {"drag_begin_region", "drag_begin", "drag_update", "drag_end", "motion", "enter",
     "leave", "select_all", "snapshot"}

\* The main loop can run h now: drag-update and drag-end come between a
\* drag-begin and its drag-end, snapshot when a redraw is queued
CanRun(h) ==
    CASE h \in {"drag_begin_region", "drag_begin"} -> ~out.pressed
      [] h \in {"drag_update", "drag_end"} -> out.pressed
      [] h = "snapshot" -> out.draw_queued
      [] OTHER -> TRUE

InitBorrows ==
    /\ CanvasInit(ScreenWidth, ScreenHeight, << >>)
    /\ Realized(<<0, 0>>)
    /\ arg = [fn |-> "borrows"]
    /\ out = [handler |-> "idle", pc |-> 0, last |-> "idle", writer |-> FALSE,
              readers |-> 0, mutated |-> FALSE, draw_queued |-> TRUE,
              pressed |-> FALSE, panicked |-> FALSE]

Running == arg.fn = "borrows" /\ out.handler # "idle" /\ ~out.panicked

\* The step the running handler is at
AtStep(op) ==
    /\ Running
    /\ out.pc <= Len(HandlerSteps(out.handler))
    /\ HandlerSteps(out.handler)[out.pc] = op

Stepped(o) ==
    /\ out' = [o EXCEPT !.pc = out.pc + 1]
    /\ UNCHANGED <<arg, canvas, pointer>>

\* The main loop hands an event to its handler, or runs the queued redraw
Dispatch ==
    /\ arg.fn = "borrows"
    /\ out.handler = "idle"
    /\ ~out.panicked
    /\ \E h \in Handlers :
          /\ CanRun(h)
          /\ out' = [out EXCEPT
                        !.handler = h, !.pc = 1, !.last = h,
                        !.pressed = IF h \in {"drag_begin_region", "drag_begin"} THEN TRUE
                                    ELSE IF h = "drag_end" THEN FALSE ELSE @,
                        !.draw_queued = IF h = "snapshot" THEN FALSE ELSE @]
    /\ UNCHANGED <<arg, canvas, pointer>>

\* RefCell::borrow_mut: refused while any borrow is out
BorrowMut ==
    /\ AtStep("borrow_mut")
    /\ IF out.writer \/ out.readers > 0
       THEN Stepped([out EXCEPT !.panicked = TRUE])
       ELSE Stepped([out EXCEPT !.writer = TRUE])

\* RefCell::borrow: refused while the mutable borrow is out
Borrow ==
    /\ AtStep("borrow")
    /\ IF out.writer
       THEN Stepped([out EXCEPT !.panicked = TRUE])
       ELSE Stepped([out EXCEPT !.readers = @ + 1])

\* drop, or the end of the borrow's scope
DropBorrow ==
    /\ AtStep("release")
    /\ IF out.writer
       THEN Stepped([out EXCEPT !.writer = FALSE, !.mutated = FALSE])
       ELSE Stepped([out EXCEPT !.readers = @ - 1])

\* A method of the Selection that changes it, through the mutable borrow
WriteSelection ==
    /\ AtStep("write")
    /\ out.writer
    /\ Stepped([out EXCEPT !.mutated = TRUE])

\* A method of the Selection that reads it, through the borrow held
ReadSelection ==
    /\ AtStep("read")
    /\ out.writer \/ out.readers > 0
    /\ Stepped(out)

\* set_cursor_by_name: the cursor cells and the widget, not the Selection
SetCursor ==
    /\ AtStep("set_cursor")
    /\ Stepped(out)

QueueDraw ==
    /\ AtStep("queue_draw")
    /\ Stepped([out EXCEPT !.draw_queued = TRUE])

\* The change callback runs; a listener may ask the canvas for its selection
\* (Canvas::get_crop_region, Canvas::has_valid_selection), which borrows it
Callback ==
    /\ AtStep("callback")
    /\ IF out.writer
       THEN Stepped([out EXCEPT !.panicked = TRUE])
       ELSE Stepped(out)

\* The handler returns to the main loop
Return ==
    /\ Running
    /\ out.pc > Len(HandlerSteps(out.handler))
    /\ out' = [out EXCEPT !.handler = "idle", !.pc = 0]
    /\ UNCHANGED <<arg, canvas, pointer>>

NextBorrows ==
    \/ Dispatch
    \/ BorrowMut
    \/ Borrow
    \/ DropBorrow
    \/ WriteSelection
    \/ ReadSelection
    \/ SetCursor
    \/ QueueDraw
    \/ Callback
    \/ Return

SpecBorrows == InitBorrows /\ [][NextBorrows]_vars

(***************************************************************************)
(* Screenshot::crop. The arguments and the image's sizes are i32; the      *)
(* sub-rectangle is the one handed to Pixbuf::new_subpixbuf.                *)
(***************************************************************************)
I32Max == 2147483647

I32Min == -I32Max - 1

\* Mutant of CropExtent: the size is not raised to 1
CropExtentUnraised(size, limit, origin) == Min(size, limit - origin)

\* x.max(0).min(self.width - 1)
CropOrigin(origin, limit) == Min(Max(origin, 0), limit - 1)

\* width.min(self.width - x).max(1), x being the clamped origin
CropExtent(size, limit, origin) == Max(Min(size, limit - origin), 1)

\* The sub-rectangle Screenshot::crop takes from an image
Crop(image, x, y, width, height) ==
    LET cx == CropOrigin(x, image.width)
        cy == CropOrigin(y, image.height)
    IN  [x |-> cx, y |-> cy,
         width |-> CropExtent(width, image.width, cx),
         height |-> CropExtent(height, image.height, cy)]

MaxImageWidth == 3

MaxImageHeight == 2

\* Values around and far outside an image of up to MaxImageWidth pixels
CropInputs == {I32Min, -1, I32Max} \cup (0 .. MaxImageWidth + 1)

InitCrop ==
    /\ CanvasInit(ScreenWidth, ScreenHeight, << >>)
    /\ Realized(<<0, 0>>)
    /\ \E w \in 1 .. MaxImageWidth, h \in 1 .. MaxImageHeight,
          x \in CropInputs, y \in CropInputs, cw \in CropInputs, ch \in CropInputs :
          arg = [fn |-> "crop", image |-> [width |-> w, height |-> h],
                 x |-> x, y |-> y, width |-> cw, height |-> ch]
    /\ out = None

ApplyCrop ==
    /\ arg.fn = "crop"
    /\ out = None
    /\ out' = Some(Crop(arg.image, arg.x, arg.y, arg.width, arg.height))
    /\ UNCHANGED <<arg, canvas, pointer>>

SpecCrop == InitCrop /\ [][ApplyCrop]_vars

(***************************************************************************)
(* Properties                                                              *)
(***************************************************************************)
\* The bounds and minimum size of a finalized rect on a screen sw x sh
Finalized(r, sw, sh) ==
    /\ r.x >= 0
    /\ r.y >= 0
    /\ r.x + r.width <= sw
    /\ r.y + r.height <= sh
    /\ r.width >= MIN_SIZE
    /\ r.height >= MIN_SIZE

\* C1: in every state the controller events reach, a rect that is present
\* while nothing is dragged (drag_mode None) lies inside the screen and is at
\* least MIN_SIZE wide and high.
C1_FinalizedRect ==
    (selection.drag_mode = DragNone /\ IsSome(selection.rect))
        => Finalized(Unwrap(selection.rect), selection.screen_width, selection.screen_height)

\* Where C1 fails: only between the press that selected a predefined region
\* and its release, the rect being that region as given.
C1_FailsOnlyInRegionClick ==
    (selection.drag_mode = DragNone /\ IsSome(selection.rect)
        /\ ~Finalized(Unwrap(selection.rect), selection.screen_width, selection.screen_height))
        => /\ gesture.active
           /\ ev \in {"press_region", "update"}
           /\ \E i \in 1 .. Len(selection.predefined_regions) :
                 selection.rect = Some(selection.predefined_regions[i])

\* C2: for every rect, whatever the signs of its width and height and wherever
\* its origin, and every screen of at least MIN_SIZE x MIN_SIZE, the rect that
\* constrain returns lies inside the screen and is at least MIN_SIZE wide and high.
C2_ConstrainWithinScreen ==
    (arg.fn = "constrain" /\ IsSome(out))
        => Finalized(Unwrap(out), arg.screen_width, arg.screen_height)

\* C2 witness: constrain has been applied to a rect of negative width, left of
\* the screen and higher than it.
C2_Witness ==
    /\ arg.fn = "constrain"
    /\ IsSome(out)
    /\ arg.r.width < 0
    /\ arg.r.x < 0
    /\ arg.r.height > arg.screen_height
    /\ arg.screen_width >= MIN_SIZE

\* The corner of the normalized rect n that a corner anchor names
CornerPoint(n, c) ==
    CASE c = "TopLeft" -> <<n.x, n.y>>
      [] c = "TopRight" -> <<n.x + n.width, n.y>>
      [] c = "BottomRight" -> <<n.x + n.width, n.y + n.height>>
      [] c = "BottomLeft" -> <<n.x, n.y + n.height>>

\* (x, y) lies in the handle square of side HANDLE_SIZE centred on corner c
InCornerSquare(n, c, x, y) ==
    /\ 2 * Abs(x - CornerPoint(n, c)[1]) <= HANDLE_SIZE
    /\ 2 * Abs(y - CornerPoint(n, c)[2]) <= HANDLE_SIZE

\* (x, y) lies in the grab band of side e, between the two handles of that side
InEdgeZone(n, e, x, y) ==
    LET between_x == 2 * (x - n.x) >= HANDLE_SIZE /\ 2 * (n.x + n.width - x) >= HANDLE_SIZE
        between_y == 2 * (y - n.y) >= HANDLE_SIZE /\ 2 * (n.y + n.height - y) >= HANDLE_SIZE
    IN  CASE e = "Top" -> between_x /\ Abs(y - n.y) <= EDGE_GRAB_WIDTH
          [] e = "Bottom" -> between_x /\ Abs(y - (n.y + n.height)) <= EDGE_GRAB_WIDTH
          [] e = "Left" -> between_y /\ Abs(x - n.x) <= EDGE_GRAB_WIDTH
          [] e = "Right" -> between_y /\ Abs(x - (n.x + n.width)) <= EDGE_GRAB_WIDTH

InsideRect(n, x, y) ==
    x >= n.x /\ x <= n.x + n.width /\ y >= n.y /\ y <= n.y + n.height

\* C3: hit_test answers for every rect and point, by strict precedence: a corner
\* whose handle square holds the point; else a side whose edge zone holds it;
\* else Moving inside the normalized rect (bounds included); else Creating.
\* Without a rect the answer is Creating.
C3_HitTestPrecedence ==
    (arg.fn = "hit_test" /\ IsSome(out)) =>
        LET m == Unwrap(out)
        IN  IF ~IsSome(arg.rect) THEN m = Creating
            ELSE LET n == Normalized(Unwrap(arg.rect))
                 IN  IF \E c \in Corners : InCornerSquare(n, c, arg.x, arg.y)
                         THEN /\ m.kind = "Resizing"
                              /\ m.edge \in Corners
                              /\ InCornerSquare(n, m.edge, arg.x, arg.y)
                     ELSE IF \E e \in Midpoints : InEdgeZone(n, e, arg.x, arg.y)
                         THEN /\ m.kind = "Resizing"
                              /\ m.edge \in Midpoints
                              /\ InEdgeZone(n, m.edge, arg.x, arg.y)
                     ELSE IF InsideRect(n, arg.x, arg.y) THEN m = Moving
                     ELSE m = Creating

\* C3 witness: a point inside the rect that lies in a handle square and in an
\* edge zone at once has been answered with the corner.
C3_Witness ==
    /\ arg.fn = "hit_test"
    /\ IsSome(out)
    /\ IsSome(arg.rect)
    /\ Unwrap(out) = Resizing("TopLeft")
    /\ InEdgeZone(Normalized(Unwrap(arg.rect)), "Top", arg.x, arg.y)
    /\ InsideRect(Normalized(Unwrap(arg.rect)), arg.x, arg.y)

LeftAnchors == {"Left", "TopLeft", "BottomLeft"}
RightAnchors == {"Right", "TopRight", "BottomRight"}
TopAnchors == {"Top", "TopLeft", "TopRight"}
BottomAnchors == {"Bottom", "BottomLeft", "BottomRight"}

\* The side of the drag-start rect st opposite anchor e on the x axis, and
\* where the pointer delta puts the side the anchor drags
OppositeX(st, e) == IF e \in LeftAnchors THEN st.x + st.width ELSE st.x
DraggedX(st, e, dx) == IF e \in LeftAnchors THEN st.x + dx ELSE st.x + st.width + dx
OppositeY(st, e) == IF e \in TopAnchors THEN st.y + st.height ELSE st.y
DraggedY(st, e, dy) == IF e \in TopAnchors THEN st.y + dy ELSE st.y + st.height + dy

\* The opposite side is still a side of cur, on each axis the anchor drags
OppositeXKept(st, e, cur) ==
    (e \in LeftAnchors \cup RightAnchors) => OppositeX(st, e) \in {cur.x, cur.x + cur.width}
OppositeYKept(st, e, cur) ==
    (e \in TopAnchors \cup BottomAnchors) => OppositeY(st, e) \in {cur.y, cur.y + cur.height}

\* For a midpoint anchor the axis it does not drag is untouched
OrthogonalKept(st, e, cur) ==
    /\ e \in {"Left", "Right"} => (cur.y = st.y /\ cur.height = st.height)
    /\ e \in {"Top", "Bottom"} => (cur.x = st.x /\ cur.width = st.width)

\* The dragged side stays at least MIN_SIZE from the opposite side and on the
\* screen, so that constrain has nothing to clamp on that axis
UnclampedAxis(opposite, dragged, bound) ==
    /\ Abs(dragged - opposite) >= MIN_SIZE
    /\ dragged >= 0
    /\ dragged <= bound

\* A drag-update has just been handled in a Resizing drag
ResizeUpdated ==
    /\ ev = "update"
    /\ selection.drag_mode.kind = "Resizing"
    /\ IsSome(selection.drag_start_rect)
    /\ IsSome(selection.rect)

\* C4 as stated: after every update of a Resizing drag, wherever the pointer
\* is, each side of drag_start_rect opposite the anchor is a side of the rect,
\* and a midpoint anchor leaves the orthogonal axis unchanged.
C4_OppositeSidesFixed ==
    ResizeUpdated =>
        LET st == Unwrap(selection.drag_start_rect)
            cur == Unwrap(selection.rect)
            e == selection.drag_mode.edge
        IN  /\ OppositeXKept(st, e, cur)
            /\ OppositeYKept(st, e, cur)
            /\ OrthogonalKept(st, e, cur)

\* C4 amended: the opposite side is kept on every axis where the dragged side
\* stays at least MIN_SIZE from it and inside the screen; a midpoint anchor
\* leaves the orthogonal axis unchanged wherever the pointer is.
C4_OppositeSidesFixedUnclamped ==
    ResizeUpdated =>
        LET st == Unwrap(selection.drag_start_rect)
            cur == Unwrap(selection.rect)
            e == selection.drag_mode.edge
            dx == gesture.offset[1]
            dy == gesture.offset[2]
        IN  /\ UnclampedAxis(OppositeX(st, e), DraggedX(st, e, dx), selection.screen_width)
                  => OppositeXKept(st, e, cur)
            /\ UnclampedAxis(OppositeY(st, e), DraggedY(st, e, dy), selection.screen_height)
                  => OppositeYKept(st, e, cur)
            /\ OrthogonalKept(st, e, cur)

\* C4 witness: the left side has been dragged outwards, the rect has grown and
\* its right side is where it was.
C4_Witness ==
    /\ ResizeUpdated
    /\ selection.drag_mode.edge \in LeftAnchors
    /\ gesture.offset[1] < 0
    /\ Unwrap(selection.rect).width > Unwrap(selection.drag_start_rect).width
    /\ Right(Unwrap(selection.rect)) = Right(Unwrap(selection.drag_start_rect))

(***************************************************************************)
(* Properties of call sequences                                            *)
(***************************************************************************)
Ops(calls) == [k \in 1 .. Len(calls) |-> calls[k].op]
Applied == out.pc - 1
CallPoint(k) == <<arg.calls[k].x, arg.calls[k].y>>
InScreen(p) ==
    p[1] >= 0 /\ p[1] <= arg.screen_width /\ p[2] >= 0 /\ p[2] <= arg.screen_height

\* c is v rounded to whole pixels, a half going away from zero
IsRounded(c, v) ==
    /\ 2 * Abs(c * Unit - v) <= Unit
    /\ 2 * Abs(c * Unit - v) = Unit => Abs(c * Unit) > Abs(v)

\* crop is the rect (x, y, width, height) in whole pixels
IsCropOf(crop, x, y, width, height) ==
    /\ IsSome(crop)
    /\ IsRounded(Unwrap(crop)[1], x)
    /\ IsRounded(Unwrap(crop)[2], y)
    /\ IsRounded(Unwrap(crop)[3], width)
    /\ IsRounded(Unwrap(crop)[4], height)

\* The script is one gesture with two updates and both have been applied
TwoUpdatesApplied ==
    /\ arg.fn = "calls"
    /\ Ops(arg.calls) = <<"start_drag", "update_drag", "update_drag", "end_drag">>
    /\ Applied >= 3

\* C5: the rect after an update_drag is the rect that update_drag gives when it
\* is the first call after start_drag: the updates before it leave no trace.
\* They also leave drag_mode, drag_start and drag_start_rect as start_drag set them.
C5_NoDrift ==
    TwoUpdatesApplied =>
        LET started == out.log[1]
            q2 == CallPoint(3)
        IN  /\ out.log[3].rect = UpdateDrag(started, q2[1], q2[2]).rect
            /\ out.log[3].drag_mode = started.drag_mode
            /\ out.log[3].drag_start = started.drag_start
            /\ out.log[3].drag_start_rect = started.drag_start_rect

\* C5 witness: a Moving drag whose first update moved the rect and whose second
\* update moved it elsewhere.
C5_Witness ==
    /\ TwoUpdatesApplied
    /\ out.log[1].drag_mode = Moving
    /\ out.log[2].rect # out.log[1].rect
    /\ out.log[3].rect # out.log[2].rect
    /\ out.log[3].rect # out.log[1].rect

\* The script is a press and a release and both have been applied
ClickApplied ==
    /\ arg.fn = "calls"
    /\ Ops(arg.calls) = <<"start_drag", "end_drag">>
    /\ Applied = 2

\* C6: start_drag at a point of an existing rect, then end_drag: the rect is the
\* normalized and constrained rect of before, and the very rect of before when
\* that one was finalized.
C6_ZeroMovementRoundTrip ==
    (/\ ClickApplied
     /\ IsSome(arg.rect)
     /\ InsideRect(Normalized(Unwrap(arg.rect)), CallPoint(1)[1], CallPoint(1)[2]))
    => /\ out.s.rect = Some(Constrain(Normalized(Unwrap(arg.rect)),
                                      arg.screen_width, arg.screen_height))
       /\ Finalized(Unwrap(arg.rect), arg.screen_width, arg.screen_height)
             => out.s.rect = arg.rect

\* C6 witness: a click in the interior of a finalized rect (a Moving drag of no
\* movement) has been released and the rect is the one of before.
C6_Witness ==
    /\ ClickApplied
    /\ IsSome(arg.rect)
    /\ Finalized(Unwrap(arg.rect), arg.screen_width, arg.screen_height)
    /\ out.log[1].drag_mode = Moving
    /\ out.s.rect = arg.rect

\* r with its width changed by d
Widened(r, d) == Rect(r.x, r.y, r.width + d, r.height)

\* One drag of the Right edge, out by d and back, both updates applied
RightOutAndBackInOneDrag ==
    /\ TwoUpdatesApplied
    /\ out.log[1].drag_mode = Resizing("Right")
    /\ CallPoint(2)[1] # CallPoint(1)[1]
    /\ CallPoint(3)[1] = CallPoint(1)[1]

\* Two complete drags of the Right edge, the first by d, the second by -d
RightOutAndBackInTwoDrags ==
    /\ arg.fn = "calls"
    /\ Ops(arg.calls) = <<"start_drag", "update_drag", "end_drag",
                          "start_drag", "update_drag", "end_drag">>
    /\ Applied = 6
    /\ out.log[1].drag_mode = Resizing("Right")
    /\ out.log[4].drag_mode = Resizing("Right")
    /\ CallPoint(2)[1] # CallPoint(1)[1]
    /\ CallPoint(5)[1] - CallPoint(4)[1] = CallPoint(1)[1] - CallPoint(2)[1]

\* Neither the rect nor the rect widened by d is touched by constrain
NoClampAt(d) ==
    /\ IsSome(arg.rect)
    /\ Finalized(Unwrap(arg.rect), arg.screen_width, arg.screen_height)
    /\ Finalized(Widened(Unwrap(arg.rect), d), arg.screen_width, arg.screen_height)

\* C7: the Right edge dragged by d and then by -d, with no clamp at either end,
\* as two updates of one drag or as two complete drags: the rect is the rect of
\* before (same width, x, y and height), and in between it was wider by d.
C7_RightOutAndBack ==
    /\ (RightOutAndBackInOneDrag /\ NoClampAt(CallPoint(2)[1] - CallPoint(1)[1]))
          => /\ out.log[2].rect =
                    Some(Widened(Unwrap(arg.rect), CallPoint(2)[1] - CallPoint(1)[1]))
             /\ out.s.rect = arg.rect
    /\ (RightOutAndBackInTwoDrags /\ NoClampAt(CallPoint(2)[1] - CallPoint(1)[1]))
          => /\ out.log[3].rect =
                    Some(Widened(Unwrap(arg.rect), CallPoint(2)[1] - CallPoint(1)[1]))
             /\ out.s.rect = arg.rect

\* C7 witness: the scenario rect, its Right edge dragged out by 100 and, in a
\* second drag, back by 100.
C7_Witness ==
    /\ RightOutAndBackInTwoDrags
    /\ arg.rect = Some(ScenarioRect)
    /\ CallPoint(2)[1] - CallPoint(1)[1] = Px(100)
    /\ NoClampAt(Px(100))
    /\ out.log[3].rect = Some(Rect(Px(100), Px(100), Px(500), Px(300)))
    /\ out.s.rect = Some(ScenarioRect)

\* The same within one drag: out by 100, then back to the press point
C7_WitnessOneDrag ==
    /\ RightOutAndBackInOneDrag
    /\ arg.rect = Some(ScenarioRect)
    /\ Applied = 4
    /\ CallPoint(2)[1] - CallPoint(1)[1] = Px(100)
    /\ out.log[2].rect = Some(Rect(Px(100), Px(100), Px(500), Px(300)))
    /\ out.s.rect = Some(ScenarioRect)

\* The script is one gesture with one update and all of it has been applied
DragApplied ==
    /\ arg.fn = "calls"
    /\ Ops(arg.calls) = <<"start_drag", "update_drag", "end_drag">>
    /\ Applied = 3

\* C8: on a Selection without rect, a drag from p to q, both on the screen and
\* at least MIN_SIZE apart on each axis, leaves as crop region the box spanned
\* by p and q (smaller coordinates, absolute differences) and a valid
\* selection, in whatever direction q lies.
C8_CreateByDrag ==
    (/\ DragApplied
     /\ ~IsSome(arg.rect)
     /\ InScreen(CallPoint(1))
     /\ InScreen(CallPoint(2))
     /\ Abs(CallPoint(2)[1] - CallPoint(1)[1]) >= MIN_SIZE
     /\ Abs(CallPoint(2)[2] - CallPoint(1)[2]) >= MIN_SIZE)
    => /\ IsCropOf(GetCropRegion(out.s),
                   Min(CallPoint(1)[1], CallPoint(2)[1]),
                   Min(CallPoint(1)[2], CallPoint(2)[2]),
                   Abs(CallPoint(2)[1] - CallPoint(1)[1]),
                   Abs(CallPoint(2)[2] - CallPoint(1)[2]))
       /\ HasValidSelection(out.s)

\* C8 witness: the scenario, 1920x1080, from (100,100) to (500,400), crop
\* region (100,100,400,300).
C8_Witness ==
    /\ DragApplied
    /\ ~IsSome(arg.rect)
    /\ arg.screen_width = ScenarioWidth
    /\ CallPoint(1) = <<Px(100), Px(100)>>
    /\ CallPoint(2) = <<Px(500), Px(400)>>
    /\ GetCropRegion(out.s) = Some(<<100, 100, 400, 300>>)
    /\ HasValidSelection(out.s)

\* A creation towards the upper left, ended
C8_WitnessUpLeft ==
    /\ DragApplied
    /\ ~IsSome(arg.rect)
    /\ CallPoint(2)[1] <= CallPoint(1)[1] - MIN_SIZE
    /\ CallPoint(2)[2] <= CallPoint(1)[2] - MIN_SIZE
    /\ InScreen(CallPoint(2))
    /\ HasValidSelection(out.s)

\* The result the claim gives for anchor e, rect r and delta (dx, dy)
PerAnchor(r, e, dx, dy) ==
    CASE e = "TopLeft" -> Rect(r.x + dx, r.y + dy, r.width - dx, r.height - dy)
      [] e = "Top" -> Rect(r.x, r.y + dy, r.width, r.height - dy)
      [] e = "TopRight" -> Rect(r.x, r.y + dy, r.width + dx, r.height - dy)
      [] e = "Right" -> Rect(r.x, r.y, r.width + dx, r.height)
      [] e = "BottomRight" -> Rect(r.x, r.y, r.width + dx, r.height + dy)
      [] e = "Bottom" -> Rect(r.x, r.y, r.width, r.height + dy)
      [] e = "BottomLeft" -> Rect(r.x + dx, r.y, r.width - dx, r.height + dy)
      [] e = "Left" -> Rect(r.x + dx, r.y, r.width - dx, r.height)

\* A drag on a handle or edge of a finalized rect whose per-anchor result is
\* at least MIN_SIZE in both dimensions and on the screen
ResizeDragUnclamped ==
    /\ DragApplied
    /\ IsSome(arg.rect)
    /\ Finalized(Unwrap(arg.rect), arg.screen_width, arg.screen_height)
    /\ out.log[1].drag_mode.kind = "Resizing"
    /\ Finalized(PerAnchor(Unwrap(arg.rect), out.log[1].drag_mode.edge,
                           CallPoint(2)[1] - CallPoint(1)[1],
                           CallPoint(2)[2] - CallPoint(1)[2]),
                 arg.screen_width, arg.screen_height)

\* C9: such a drag ends with exactly the per-anchor result.
C9_PerAnchorResize ==
    ResizeDragUnclamped =>
        out.s.rect = Some(PerAnchor(Unwrap(arg.rect), out.log[1].drag_mode.edge,
                                    CallPoint(2)[1] - CallPoint(1)[1],
                                    CallPoint(2)[2] - CallPoint(1)[2]))

\* C9 witness: the scenario, rect (100,100,400,300), top-left handle pressed at
\* (100,100) and dragged to (150,150), result (150,150,350,250).
C9_Witness ==
    /\ ResizeDragUnclamped
    /\ arg.rect = Some(ScenarioRect)
    /\ CallPoint(1) = <<Px(100), Px(100)>>
    /\ CallPoint(2) = <<Px(150), Px(150)>>
    /\ out.log[1].drag_mode = Resizing("TopLeft")
    /\ out.s.rect = Some(Rect(Px(150), Px(150), Px(350), Px(250)))

\* The script is one select_predefined_region by a valid index, applied
RegionSelected ==
    /\ arg.fn = "calls"
    /\ Ops(arg.calls) = <<"select_predefined_region">>
    /\ Applied = 1
    /\ arg.calls[1].index < Len(arg.regions)

\* C10: select_predefined_region by a valid index leaves the region itself as
\* rect, whether or not it fits the screen or MIN_SIZE; the crop region is the
\* region in whole pixels and the selection is valid iff the region is at
\* least MIN_SIZE wide and high.
C10_RegionVerbatim ==
    RegionSelected =>
        LET region == arg.regions[arg.calls[1].index + 1]
        IN  /\ out.s.rect = Some(region)
            /\ IsCropOf(GetCropRegion(out.s), region.x, region.y, region.width, region.height)
            /\ HasValidSelection(out.s)
                  <=> (region.width >= MIN_SIZE /\ region.height >= MIN_SIZE)

\* C10 witness: a region that overruns the screen has been selected over an
\* existing rect and is the rect, as it is.
C10_Witness ==
    /\ RegionSelected
    /\ IsSome(arg.rect)
    /\ out.s.rect = Some(arg.regions[arg.calls[1].index + 1])
    /\ Right(Unwrap(out.s.rect)) > arg.screen_width
    /\ HasValidSelection(out.s)

\* An undersized region with half-pixel sizes has been selected: the crop
\* region is rounded, the selection is not valid
C10_WitnessUndersized ==
    /\ RegionSelected
    /\ out.s.rect = Some(Rect(Px(10), Px(10), Px(10) - 1, Px(10) + 1))
    /\ ~HasValidSelection(out.s)

(***************************************************************************)
(* Properties of the controllers                                           *)
(***************************************************************************)
\* The steps of a session, told by the gesture and the history
PressStep == ~gesture.active /\ gesture'.active
UpdateStep == gesture.active /\ gesture'.active /\ ev' = "update"
ReleaseStep == gesture.active /\ ~gesture'.active

\* Positions (1-based) of the regions of s that hold the point p
RegionsUnder(s, p) ==
    {k \in 1 .. Len(s.predefined_regions) : InsideRect(s.predefined_regions[k], p[1], p[2])}

\* The press at p takes the region branch: only rect changes, to the first region under p
PressSelectsRegion(p) ==
    /\ RegionsUnder(selection, p) # {}
    /\ \E k \in RegionsUnder(selection, p) :
          /\ \A j \in RegionsUnder(selection, p) : k <= j
          /\ selection'.rect = Some(selection.predefined_regions[k])
    /\ selection'.drag_mode = DragNone
    /\ selection'.drag_mode = selection.drag_mode
    /\ selection'.drag_start = selection.drag_start
    /\ selection'.drag_start_rect = selection.drag_start_rect

\* The press at p starts a drag: the bookkeeping of start_drag is set, and rect is
\* left alone or becomes the empty rect at p
PressStartsDrag(p) ==
    /\ selection'.drag_mode # DragNone
    /\ selection'.drag_start = p
    /\ selection'.drag_start_rect = selection.rect
    /\ \/ selection'.rect = selection.rect /\ IsSome(selection.rect)
       \/ selection'.rect = Some(Rect(p[1], p[2], 0, 0)) /\ selection'.drag_mode = Creating

\* C11: a press with no rect and a region under the pointer selects the first
\* such region and starts no drag (drag_mode stays None, drag_start and
\* drag_start_rect keep their values); the drag-updates of that gesture leave
\* rect as it is; every other press starts a drag and selects no region.
C11_PressHandling ==
    [][ /\ PressStep =>
              IF ~IsSome(selection.rect) /\ RegionsUnder(selection, gesture'.start) # {}
              THEN PressSelectsRegion(gesture'.start)
              ELSE PressStartsDrag(gesture'.start)
        /\ (UpdateStep /\ selection.drag_mode = DragNone) => selection' = selection
      ]_vars

\* C11 witness: a press where two regions overlap has selected the first of
\* them, and a drag-update of the same gesture has come and gone.
C11_Witness ==
    /\ gesture.active
    /\ ev = "update"
    /\ gesture.offset # <<0, 0>>
    /\ pre = None
    /\ Cardinality(RegionsUnder(selection, gesture.start)) >= 2
    /\ selection.drag_mode = DragNone
    /\ selection.rect = Some(selection.predefined_regions[1])

\* C12: a release whose point differs from the press point leaves as cursor
\* the identity cursor_for_position gives at the release point, the press
\* point plus the final offset of the gesture.
C12_ReleaseCursorAtReleasePoint ==
    [][ (ReleaseStep /\ gesture.offset # <<0, 0>>) =>
            current_cursor' = CursorForPosition(selection', GesturePoint(gesture)[1],
                                                GesturePoint(gesture)[2])
      ]_vars

\* What connect_drag_end does: the identity is that of the press point
C12_ReleaseCursorAtPressPoint ==
    [][ ReleaseStep =>
            current_cursor' = CursorForPosition(selection', gesture.start[1], gesture.start[2])
      ]_vars

\* C13: the handler of a press (either branch), a drag-update, a release or a
\* select-all calls the change callback once, after its mutation, with the crop
\* region of the Selection it leaves: nothing when there is no rect, else the
\* normalized rect in whole pixels, whether or not it reaches MIN_SIZE.
C13_NotifiedOncePerEvent ==
    ev \in {"press", "press_region", "update", "release", "click", "click_region",
            "select_all"} =>
        /\ Len(notified) = 1
        /\ IF IsSome(selection.rect)
           THEN LET n == Normalized(Unwrap(selection.rect))
                IN  IsCropOf(notified[1], n.x, n.y, n.width, n.height)
           ELSE notified[1] = None

\* C13 witness: a drag-update of a creation has left a rect below MIN_SIZE in
\* both dimensions and the callback was called with it.
C13_Witness ==
    /\ ev = "update"
    /\ selection.drag_mode = Creating
    /\ Len(notified) = 1
    /\ IsSome(notified[1])
    /\ Unwrap(notified[1])[3] > 0
    /\ Unwrap(notified[1])[3] < 20
    /\ Unwrap(notified[1])[4] > 0
    /\ Unwrap(notified[1])[4] < 20

\* C14: over any order of events, a handler applies a cursor to the widget only
\* when the identity it requests differs from the cached one, and then once;
\* the identity applied is never the one applied last before; current_cursor
\* is the identity requested last.
C14_CursorDeduplicated ==
    [][ /\ cursor_log'.calls # << >> =>
              /\ Len(cursor_log'.calls) = 1
              /\ cursor_log'.requested = Some(cursor_log'.calls[1])
              /\ cursor_log'.calls[1] # current_cursor
              /\ Some(cursor_log'.calls[1]) # cursor_log.last
        /\ IsSome(cursor_log'.requested) => current_cursor' = Unwrap(cursor_log'.requested)
      ]_vars

\* C14 witness: a motion has requested the identity already cached, a resize
\* cursor applied before, and nothing was applied.
C14_Witness ==
    /\ ev = "motion"
    /\ cursor_log.calls = << >>
    /\ cursor_log.requested = Some(current_cursor)
    /\ cursor_log.last = Some(current_cursor)
    /\ current_cursor = "nw-resize"

\* The cursor identity that goes with a drag mode hit_test may answer
CursorOfMode(m) ==
    CASE m = Resizing("TopLeft") -> "nw-resize"
      [] m = Resizing("TopRight") -> "ne-resize"
      [] m = Resizing("BottomRight") -> "se-resize"
      [] m = Resizing("BottomLeft") -> "sw-resize"
      [] m = Resizing("Top") -> "n-resize"
      [] m = Resizing("Right") -> "e-resize"
      [] m = Resizing("Bottom") -> "s-resize"
      [] m = Resizing("Left") -> "w-resize"
      [] m = Moving -> "grab"
      [] m = Creating -> "crosshair"

\* C15: cursor_for_position is "grabbing" at every point while drag_mode is
\* Moving; in every other drag mode it is the identity of what hit_test answers
\* at the point: the resize cursor of the anchor, "grab" for Moving,
\* "crosshair" for Creating.
C15_CursorFollowsHitTest ==
    (arg.fn = "cursor_for_position" /\ IsSome(out)) =>
        Unwrap(out).cursor = IF arg.drag_mode = Moving THEN "grabbing"
                             ELSE CursorOfMode(Unwrap(out).mode)

\* C15 witness: during a Resizing drag, a point in a handle square that also
\* lies in an edge zone has the cursor of the corner.
C15_Witness ==
    /\ arg.fn = "cursor_for_position"
    /\ IsSome(out)
    /\ IsSome(arg.rect)
    /\ arg.drag_mode = Resizing("Right")
    /\ Unwrap(out).cursor = "nw-resize"
    /\ InEdgeZone(Normalized(Unwrap(arg.rect)), "Top", arg.x, arg.y)

\* While Moving, a point outside the rect has "grabbing"
C15_WitnessGrabbing ==
    /\ arg.fn = "cursor_for_position"
    /\ IsSome(out)
    /\ arg.drag_mode = Moving
    /\ Unwrap(out).mode = Creating
    /\ Unwrap(out).cursor = "grabbing"

\* C16: while drag_mode is not None, drag_start_rect is the rect as the press
\* that began the drag found it; it is absent only in a Creating drag begun
\* without a rect, so it is present in every Moving and Resizing drag.
C16_DragBookkeeping ==
    selection.drag_mode # DragNone =>
        /\ selection.drag_start_rect = pre
        /\ ~IsSome(selection.drag_start_rect) =>
              (selection.drag_mode = Creating /\ ~IsSome(pre))
        /\ selection.drag_mode.kind \in {"Moving", "Resizing"} =>
              IsSome(selection.drag_start_rect)

\* C16 witness: a Creating drag begun outside an existing rect has been
\* updated; the snapshot still holds the rect of before.
C16_Witness ==
    /\ ev = "update"
    /\ selection.drag_mode = Creating
    /\ IsSome(selection.drag_start_rect)
    /\ selection.drag_start_rect = pre
    /\ selection.rect # selection.drag_start_rect

(***************************************************************************)
(* Properties of the magnifier                                             *)
(***************************************************************************)
SnapshotDone == arg.fn = "snapshot" /\ IsSome(out)
MagnifierDrawn == IsSome(Unwrap(out).magnifier)

\* The point lies in no handle square and no edge zone and not in the rect n
WouldCreate(n, x, y) ==
    /\ ~ \E c \in Corners : InCornerSquare(n, c, x, y)
    /\ ~ \E e \in Midpoints : InEdgeZone(n, e, x, y)
    /\ ~InsideRect(n, x, y)

\* C17: with a rect, the crosshair and magnifier are drawn iff the pointer is
\* inside the widget and drag_mode is Creating or Resizing, or is None with the
\* cursor outside the normalized rect where hit_test answers Creating; never
\* while Moving, never while the pointer is outside the widget.
C17_MagnifierVisibility ==
    (SnapshotDone /\ IsSome(arg.rect)) =>
        /\ MagnifierDrawn <=>
              /\ arg.cursor_inside
              /\ \/ arg.drag_mode = Creating
                 \/ arg.drag_mode.kind = "Resizing"
                 \/ /\ arg.drag_mode = DragNone
                    /\ ~InsideRect(Normalized(Unwrap(arg.rect)), arg.cursor_x, arg.cursor_y)
                    /\ WouldCreate(Normalized(Unwrap(arg.rect)), arg.cursor_x, arg.cursor_y)
        /\ arg.drag_mode = Moving => ~MagnifierDrawn
        /\ ~arg.cursor_inside => ~MagnifierDrawn

\* C17 witness: idle, pointer inside the widget, cursor outside the rect but on
\* a corner handle: nothing is drawn.
C17_Witness ==
    /\ SnapshotDone
    /\ IsSome(arg.rect)
    /\ arg.cursor_inside
    /\ arg.drag_mode = DragNone
    /\ ~InsideRect(Normalized(Unwrap(arg.rect)), arg.cursor_x, arg.cursor_y)
    /\ InCornerSquare(Normalized(Unwrap(arg.rect)), "BottomRight", arg.cursor_x, arg.cursor_y)
    /\ ~MagnifierDrawn

\* Idle, cursor in the dimmed area away from the handles: drawn at the cursor
C17_WitnessDrawn ==
    /\ SnapshotDone
    /\ IsSome(arg.rect)
    /\ arg.drag_mode = DragNone
    /\ Unwrap(out).magnifier = Some(<<arg.cursor_x, arg.cursor_y>>)

\* C18: the magnifier is centred on the raw cursor while Creating; on the
\* corner the anchor names, of the normalized rect, while Resizing a corner;
\* while Resizing a midpoint, on the cursor's coordinate along the side and the
\* side's own coordinate across it: (cursor x, top or bottom y) for Top and
\* Bottom, (left or right x, cursor y) for Left and Right.
C18_SnapPosition ==
    (SnapshotDone /\ IsSome(arg.rect) /\ arg.cursor_inside) =>
        LET n == Normalized(Unwrap(arg.rect))
            m == arg.drag_mode
            at == Unwrap(out).magnifier
        IN  /\ m = Creating => at = Some(<<arg.cursor_x, arg.cursor_y>>)
            /\ (m.kind = "Resizing" /\ m.edge \in Corners) =>
                  at = Some(CornerPoint(n, m.edge))
            /\ m = Resizing("Top") => at = Some(<<arg.cursor_x, n.y>>)
            /\ m = Resizing("Bottom") => at = Some(<<arg.cursor_x, n.y + n.height>>)
            /\ m = Resizing("Left") => at = Some(<<n.x, arg.cursor_y>>)
            /\ m = Resizing("Right") => at = Some(<<n.x + n.width, arg.cursor_y>>)

\* C18 witness: the Right side is being resized with the cursor off the side's
\* line; the magnifier is on the line, at the cursor's height.
C18_Witness ==
    /\ SnapshotDone
    /\ IsSome(arg.rect)
    /\ arg.cursor_inside
    /\ arg.drag_mode = Resizing("Right")
    /\ arg.cursor_x # Right(Normalized(Unwrap(arg.rect)))
    /\ Unwrap(out).magnifier =
          Some(<<Right(Normalized(Unwrap(arg.rect))), arg.cursor_y>>)

\* The cell (0-based) of the magnifier grid in which the source pixel p of an
\* axis a is drawn: scaled by whole cells from the start of the sub-window,
\* the sub-window starting a.offset into the box
CellOfPixel(a, p) == (a.offset + Px((p - a.valid_src) * pixel_size)) \div Px(pixel_size)

\* The source pixel p is among those sampled on axis a
Sampled(a, p) == p >= a.valid_src /\ p < a.valid_src + a.valid_len

\* The target's pixel lies inside the image
TargetInImage ==
    /\ arg.tx >= 0
    /\ arg.tx < Px(arg.pb_width)
    /\ arg.ty >= 0
    /\ arg.ty < Px(arg.pb_height)

\* C19: when the pixel under the target lies inside the image, a texture is
\* drawn, that pixel is sampled and lands in the centre cell (column 13 of 27,
\* row 9 of 19), also when the window is clipped at an image edge; the sampled
\* sub-window lies inside the image and is drawn (valid_src - src) cells into
\* the box.
C19_MagnifierPinned ==
    (arg.fn = "magnifier_source" /\ IsSome(out) /\ TargetInImage) =>
        LET h == Unwrap(out).h
            v == Unwrap(out).v
            px == (arg.tx - (arg.tx % Unit)) \div Unit
            py == (arg.ty - (arg.ty % Unit)) \div Unit
        IN  /\ Unwrap(out).textured
            /\ Sampled(h, px) /\ Sampled(v, py)
            /\ CellOfPixel(h, px) = 13 /\ CellOfPixel(v, py) = 9
            /\ h.valid_src >= 0 /\ h.valid_src + h.valid_len <= arg.pb_width
            /\ v.valid_src >= 0 /\ v.valid_src + v.valid_len <= arg.pb_height
            /\ h.offset = Px((h.valid_src - h.src) * 8)
            /\ v.offset = Px((v.valid_src - v.src) * 8)

\* C19 witness: the target is in the top-left pixel of an image wider than the
\* window: the window is clipped on the left and at the top, and pixel (0,0)
\* is in the centre cell.
C19_Witness ==
    /\ arg.fn = "magnifier_source"
    /\ IsSome(out)
    /\ FloorPx(arg.tx) = 0
    /\ FloorPx(arg.ty) = 0
    /\ arg.tx > 0
    /\ arg.pb_width = 40
    /\ Unwrap(out).h.src = 0 - 13
    /\ Unwrap(out).h.valid_len = 14
    /\ Unwrap(out).h.offset = Px(13 * 8)
    /\ Unwrap(out).v.offset = Px(9 * 8)

\* Where the claim puts the box on one axis before the clamp: 20 past the
\* cursor, or 20 plus its size before the cursor when that would overflow
BoxPlaced(cursor, size, bound) ==
    IF cursor + Px(20) + size > bound THEN cursor - (Px(20) + size) ELSE cursor + Px(20)

\* C20: the 216x152 box is placed at cursor + (20, 20), flipped to
\* cursor - (20 + size) on each axis where it would overflow the canvas; where
\* that place is on the canvas it is kept, and in every case the box lies
\* inside [0, width] x [0, height], on any canvas at least as large as the box.
C20_MagnifierBoxOnCanvas ==
    (arg.fn = "magnifier_box" /\ IsSome(out)) =>
        LET mag_x == Unwrap(out)[1]
            mag_y == Unwrap(out)[2]
            at_x == BoxPlaced(arg.cx, Px(216), arg.width)
            at_y == BoxPlaced(arg.cy, Px(152), arg.height)
        IN  /\ mag_x >= 0 /\ mag_x + Px(216) <= arg.width
            /\ mag_y >= 0 /\ mag_y + Px(152) <= arg.height
            /\ (at_x >= 0 /\ at_x + Px(216) <= arg.width) => mag_x = at_x
            /\ (at_y >= 0 /\ at_y + Px(152) <= arg.height) => mag_y = at_y

\* C20 witness: the cursor is near the bottom-right corner of the canvas; the
\* box has flipped on both axes and needed no clamp.
C20_Witness ==
    /\ arg.fn = "magnifier_box"
    /\ IsSome(out)
    /\ arg.cx + Px(20) + Px(216) > arg.width
    /\ arg.cy + Px(20) + Px(152) > arg.height
    /\ Unwrap(out) = <<arg.cx - Px(236), arg.cy - Px(172)>>
    /\ Unwrap(out)[1] > 0

\* The flipped place is off the canvas too and the clamp has brought the box back
C20_WitnessClamped ==
    /\ arg.fn = "magnifier_box"
    /\ IsSome(out)
    /\ arg.cx >= 0
    /\ arg.cx <= arg.width
    /\ BoxPlaced(arg.cx, Px(216), arg.width) < 0
    /\ Unwrap(out)[1] = 0

\* The least and the greatest of a set of positions

\* The four number texts of a line made of two tokens of two comma-separated
\* texts each, by the places of its commas and blanks; << >> for any other line
FourTexts(l) ==
    LET ink    == {i \in 1 .. Len(l) : l[i] \notin Whitespace}
        commas == {i \in 1 .. Len(l) : l[i] = Comma}
    IN  IF Cardinality(commas) # 2 THEN << >>
        ELSE LET first == Least(ink)
                 last  == Greatest(ink)
                 gap   == {i \in first .. last : l[i] \in Whitespace}
                 c1    == Least(commas)
                 c2    == Greatest(commas)
             IN  IF gap = {} THEN << >>
                 ELSE IF gap # Least(gap) .. Greatest(gap) THEN << >>
                 ELSE IF ~(c1 < Least(gap) /\ Greatest(gap) < c2) THEN << >>
                 ELSE <<SubSeq(l, first, c1 - 1), SubSeq(l, c1 + 1, Least(gap) - 1),
                        SubSeq(l, Greatest(gap) + 1, c2 - 1), SubSeq(l, c2 + 1, last)>>

\* The corners a line gives, << >> when it gives none
CornersOf(l) ==
    LET t == FourTexts(l)
    IN  IF t = << >> THEN << >>
        ELSE IF \E i \in 1 .. 4 : ~IsSome(ReadF32(t[i])) THEN << >>
        ELSE <<Unwrap(ReadF32(t[1])), Unwrap(ReadF32(t[2])),
               Unwrap(ReadF32(t[3])), Unwrap(ReadF32(t[4]))>>

YieldsRegion(l) ==
    LET c == CornersOf(l)
    IN  /\ c # << >>
        /\ F32Positive(F32Sub(c[3], c[1]))
        /\ F32Positive(F32Sub(c[4], c[2]))

RegionOf(l) ==
    LET c == CornersOf(l)
    IN  Rect(F32Coordinate(c[1]), F32Coordinate(c[2]),
             F32Coordinate(F32Sub(c[3], c[1])), F32Coordinate(F32Sub(c[4], c[2])))

ReadRegionsDone == arg.fn = "read_predefined_regions_from_stdin" /\ IsSome(out)

\* C21: a line yields a region iff it is two whitespace-separated tokens, each
\* two comma-separated numbers x1,y1 and x2,y2 with x2-x1 > 0 and y2-y1 > 0,
\* the region being Rect(x1, y1, x2-x1, y2-y1); the list read is the accepted
\* lines' regions in input order, every other line being dropped.
C21_RegionsFromLines ==
    (ReadRegionsDone /\ ~arg.is_terminal) =>
        LET accepted == SelectSeq(arg.lines, YieldsRegion)
        IN  Unwrap(out) = [i \in 1 .. Len(accepted) |-> RegionOf(accepted[i])]

\* C21 witness: "10,10 110,110" followed by "bad" gives [Rect(10,10,100,100)].
C21_Witness ==
    /\ ReadRegionsDone
    /\ ~arg.is_terminal
    /\ arg.lines = <<CornersLine, BadLine>>
    /\ Unwrap(out) = <<Rect(Px(10), Px(10), Px(100), Px(100))>>

\* A built line with blanks around it and a tab between the tokens is accepted
C21_WitnessBlanks ==
    /\ ReadRegionsDone
    /\ ~arg.is_terminal
    /\ Len(arg.lines) = 1
    /\ arg.lines[1] # << >>
    /\ Head(arg.lines[1]) = Code(" ")
    /\ \E i \in 1 .. Len(arg.lines[1]) : arg.lines[1][i] = Named.tab
    /\ Len(Unwrap(out)) = 1

\* Exponents, the form feed and the carriage return, the infinities and
\* values off the grid are read as f32 and str read them
C21_WitnessF32Texts ==
    /\ ReadRegionsDone
    /\ ~arg.is_terminal
    /\ arg.lines = <<ExponentLine, FormFeedLine, InfiniteLine>>
    /\ Unwrap(out) = <<Rect(0, 0, Px(100), Px(100)),
                       Rect(Px(10), Px(10), Px(100), Px(100)),
                       Rect(0, 0, "inf", "inf")>>

\* Whitespace above U+00FF separates the tokens and is trimmed; a decimal
\* above f32::MAX is an infinite width
C21_WitnessUnicode ==
    /\ ReadRegionsDone
    /\ ~arg.is_terminal
    /\ arg.lines = <<OghamLine, OverflowLine>>
    /\ Unwrap(out) = <<Rect(Px(10), Px(10), Px(100), Px(100)),
                       Rect(0, 0, "inf", Px(1))>>

\* A region 0.2 pixel wide, the f32 13421773 * 2^-26, is kept; NaN and
\* inf - inf give none
C21_WitnessOffGrid ==
    /\ ReadRegionsDone
    /\ ~arg.is_terminal
    /\ arg.lines = <<NaNLine, OffGridLine, InfiniteCornersLine>>
    /\ Len(Unwrap(out)) = 1
    /\ Unwrap(out)[1].width = [m |-> 13421773, e |-> 0 - 26]

\* The numbers are the f32 read from the text and the differences are f32
\* differences: 16777217 reads as 16777216 and leaves no width, 5e-46 reads
\* as 0 and leaves no height, and the width 16777217 is kept as 16777216
C21_WitnessRounded ==
    /\ ReadRegionsDone
    /\ ~arg.is_terminal
    /\ arg.lines = <<RoundedAwayLine, RoundedWidthLine, UnderflowLine>>
    /\ Unwrap(out) = <<Rect(0 - Px(16777216), 0, Px(16777216), Px(1))>>

\* A tie is read as the even f32 and a decimal as the nearest f32: the line
\* "8388608,0 8388608.5,1" leaves no width, and "0.1,0 0.3,1" gives the
\* width 0.3f - 0.1f = 6710887 * 2^-25, which is neither 0.2 nor 0.2f
C21_WitnessTies ==
    /\ ReadRegionsDone
    /\ ~arg.is_terminal
    /\ arg.lines = <<TieLine, TenthsLine>>
    /\ Unwrap(out) = <<Rect([m |-> 13421773, e |-> 0 - 27], 0,
                            [m |-> 6710887, e |-> 0 - 25], Px(1))>>

\* An exponent is read to the full while it stays below 0x10000 and no
\* further: 10050 zeros and e10050 leave the width 0.1f = 13421773 * 2^-27,
\* 65535 zeros and e655360, read as e65536, leave the width 1
C21_WitnessExponents ==
    /\ ReadRegionsDone
    /\ ~arg.is_terminal
    /\ arg.lines = <<LongExponentLine, SaturatedExponentLine>>
    /\ Unwrap(out) = <<Rect(0, 0, [m |-> 13421773, e |-> 0 - 27], Px(5)),
                       Rect(0, 0, Px(1), Px(5))>>

\* C22: the line "100,200 800x600" yields a region at (100,200) of size 800x600.
C22_SlurpLineYieldsRegion ==
    (ReadRegionsDone /\ ~arg.is_terminal /\ arg.lines = <<SlurpLine>>) =>
        Unwrap(out) = <<Rect(Px(100), Px(200), Px(800), Px(600))>>

CropRegionDone == arg.fn = "get_crop_region" /\ IsSome(out)

\* C23: get_crop_region() is present exactly when rect is, and is the rounded
\* fields of the normalized rect, with no size or bounds clamping;
\* has_valid_selection() is true iff rect is present with normalized width and
\* height of at least 20.
C23_CropRegionUnclamped ==
    CropRegionDone =>
        LET o == Unwrap(out)
        IN  /\ IsSome(o.crop) <=> IsSome(arg.rect)
            /\ IsSome(arg.rect) =>
                 LET r == Unwrap(arg.rect)
                 IN  /\ IsCropOf(o.crop, Min(r.x, r.x + r.width), Min(r.y, r.y + r.height),
                                 Abs(r.width), Abs(r.height))
                     /\ o.valid <=> (Abs(r.width) >= Px(20) /\ Abs(r.height) >= Px(20))
            /\ ~IsSome(arg.rect) => ~o.valid

\* C23 witness: a rect of size 10x10 is not a valid selection and its crop
\* region has w = 10, h = 10.
C23_Witness ==
    /\ CropRegionDone
    /\ IsSome(arg.rect)
    /\ Unwrap(arg.rect).width = Px(10)
    /\ Unwrap(arg.rect).height = Px(10)
    /\ ~Unwrap(out).valid
    /\ Unwrap(Unwrap(out).crop)[3] = 10
    /\ Unwrap(Unwrap(out).crop)[4] = 10

\* A rect larger than the screen and off it is valid and exported as it is
C23_WitnessOffScreen ==
    /\ CropRegionDone
    /\ IsSome(arg.rect)
    /\ Unwrap(arg.rect).x < 0
    /\ Unwrap(arg.rect).width > ScreenWidth
    /\ Unwrap(out).valid
    /\ Unwrap(Unwrap(out).crop)[1] < 0
    /\ Unwrap(Unwrap(out).crop)[3] * Unit > ScreenWidth

NormalizedDone == arg.fn = "normalized" /\ IsSome(out)

\* v lies between a and b, whichever is the smaller, ends included
Between(v, a, b) == (a <= v /\ v <= b) \/ (b <= v /\ v <= a)

\* The point set of r: from x to x + width and from y to y + height
InPointSet(r, px, py) ==
    Between(px, r.x, r.x + r.width) /\ Between(py, r.y, r.y + r.height)

\* C24: for every Rect r, of any sign of width and height,
\* normalized(normalized(r)) = normalized(r), the normalized width and height
\* are not negative, and normalized(r) covers the same points as r, contains
\* being the inclusive-bounds test on the normalized form.
C24_NormalizedIdempotent ==
    NormalizedDone =>
        LET o == Unwrap(out)
            n == o.normalized
        IN  /\ o.twice = n
            /\ n.width >= 0
            /\ n.height >= 0
            /\ InPointSet(n, arg.px, arg.py) <=> InPointSet(arg.r, arg.px, arg.py)
            /\ o.contains <=> InPointSet(arg.r, arg.px, arg.py)
            /\ o.normalized_contains <=> o.contains
            /\ o.contains <=> (/\ arg.px >= n.x /\ arg.px <= n.x + n.width
                               /\ arg.py >= n.y /\ arg.py <= n.y + n.height)

\* C24 witness: both sizes are negative and the point is on the corner the
\* rect was given by, now the far corner of the normalized rect.
C24_Witness ==
    /\ NormalizedDone
    /\ arg.r.width < 0
    /\ arg.r.height < 0
    /\ arg.px = arg.r.x
    /\ arg.py = arg.r.y
    /\ Unwrap(out).contains
    /\ Unwrap(out).normalized.x = arg.r.x + arg.r.width
    /\ Unwrap(out).normalized.width = 0 - arg.r.width

\* C25: select-all sets rect to exactly (0, 0, screen_width, screen_height)
\* and leaves drag_mode, drag_start, drag_start_rect, predefined_regions and
\* hovered_region as they were, in whatever state it is invoked.
C25_SelectAllBypassesDrag ==
    [][ev' = "select_all" =>
          selection' = [selection EXCEPT !.rect = Some(Rect(0, 0, ScreenWidth, ScreenHeight))]]_vars

\* C25 witness: select-all came in the middle of a resize, whose bookkeeping
\* is still in place, and the rect is the whole screen.
C25_Witness ==
    /\ ev = "select_all"
    /\ gesture.active
    /\ selection.drag_mode.kind = "Resizing"
    /\ IsSome(selection.drag_start_rect)
    /\ selection.drag_start_rect # selection.rect
    /\ selection.rect = Some(Rect(0, 0, ScreenWidth, ScreenHeight))

\* C26: hit_test answers Resizing(Top) or Resizing(Bottom) only for points
\* with rect.x + 7 < x < rect.right - 7, and Resizing(Left) or Resizing(Right)
\* only for points with rect.y + 7 < y < rect.bottom - 7, both strictly; a
\* point with x = rect.x + 7 in the band and outside the handle square is not
\* an edge hit.
C26_EdgeZonesStrict ==
    (arg.fn = "hit_test" /\ IsSome(out) /\ IsSome(arg.rect)) =>
        LET m == Unwrap(out)
            n == Normalized(Unwrap(arg.rect))
        IN  /\ (m.kind = "Resizing" /\ m.edge \in {"Top", "Bottom"}) =>
                  (n.x + Px(7) < arg.x /\ arg.x < n.x + n.width - Px(7))
            /\ (m.kind = "Resizing" /\ m.edge \in {"Left", "Right"}) =>
                  (n.y + Px(7) < arg.y /\ arg.y < n.y + n.height - Px(7))

\* The Selection before call k of the script
Before(k) == IF k = 1 THEN CallsStart(arg) ELSE out.log[k - 1]

\* The applied calls of the script that are op
AppliedCalls(op) == {k \in 1 .. Applied : arg.calls[k].op = op}

\* C27: select_predefined_region(i) with i >= len(predefined_regions) returns
\* false and leaves the whole Selection unchanged; with i < len it returns
\* true and changes only rect.
C27_SelectRegionFrame ==
    arg.fn = "calls" =>
        \A k \in AppliedCalls("select_predefined_region") :
            IF arg.calls[k].index >= Len(arg.regions)
            THEN /\ out.returned[k] = Some(FALSE)
                 /\ out.log[k] = Before(k)
            ELSE /\ out.returned[k] = Some(TRUE)
                 /\ out.log[k] = [Before(k) EXCEPT !.rect = out.log[k].rect]

\* C27 witness: in the middle of a resize, an index past the end has been
\* refused and nothing has changed.
C27_Witness ==
    /\ arg.fn = "calls"
    /\ Applied = 3
    /\ arg.calls[3].op = "select_predefined_region"
    /\ arg.calls[3].index >= Len(arg.regions)
    /\ out.log[2].drag_mode.kind = "Resizing"
    /\ out.returned[3] = Some(FALSE)
    /\ out.s = out.log[2]

\* In the middle of a resize, with a region hovered or not, a region has been
\* selected: the rect is new, the drag bookkeeping is as it was
C27_WitnessSelected ==
    /\ arg.fn = "calls"
    /\ Applied = 3
    /\ arg.calls[3].op = "select_predefined_region"
    /\ arg.calls[3].index < Len(arg.regions)
    /\ out.log[2].drag_mode.kind = "Resizing"
    /\ out.returned[3] = Some(TRUE)
    /\ out.s.rect # out.log[2].rect
    /\ out.s.drag_mode = out.log[2].drag_mode
    /\ out.s.drag_start_rect = out.log[2].drag_start_rect

\* A region is hovered when another one is selected, and stays hovered
C27_WitnessHovered ==
    /\ arg.fn = "calls"
    /\ Applied = 2
    /\ arg.calls[1].op = "update_hovered_region"
    /\ arg.calls[2].op = "select_predefined_region"
    /\ out.returned[2] = Some(TRUE)
    /\ IsSome(out.s.hovered_region)
    /\ Unwrap(out.s.hovered_region) # arg.calls[2].index

\* The indices (0-based) of the regions of the script that hold the point of call k
RegionsHolding(k) ==
    {i \in 0 .. Len(arg.regions) - 1 :
        InPointSet(arg.regions[i + 1], arg.calls[k].x, arg.calls[k].y)}

\* C28: find_predefined_region_at(x, y) is the smallest index whose region
\* contains (x, y), bounds included, and nothing iff no region contains it;
\* update_hovered_region sets hovered_region to exactly that on every hover
\* move.
C28_HoverFirstRegion ==
    arg.fn = "calls" =>
        \A k \in AppliedCalls("update_hovered_region") :
            LET hovered == out.log[k].hovered_region
            IN  /\ IsSome(hovered) <=> RegionsHolding(k) # {}
                /\ IsSome(hovered) =>
                      /\ Unwrap(hovered) \in RegionsHolding(k)
                      /\ \A j \in RegionsHolding(k) : Unwrap(hovered) <= j
                /\ out.log[k] = [Before(k) EXCEPT !.hovered_region = hovered]

\* C28 witness: the second of two hover moves is in three regions, on the
\* bounds of two of them, and the earliest of them is hovered; the first move
\* had hovered another region.
C28_Witness ==
    /\ arg.fn = "calls"
    /\ Applied = 2
    /\ Ops(arg.calls) = <<"update_hovered_region", "update_hovered_region">>
    /\ Cardinality(RegionsHolding(2)) = 3
    /\ out.s.hovered_region = Some(1)
    /\ IsSome(out.log[1].hovered_region)
    /\ out.log[1].hovered_region # out.s.hovered_region

\* The second hover move is in no region and nothing is hovered any more
C28_WitnessNone ==
    /\ arg.fn = "calls"
    /\ Applied = 2
    /\ Ops(arg.calls) = <<"update_hovered_region", "update_hovered_region">>
    /\ RegionsHolding(2) = {}
    /\ IsSome(out.log[1].hovered_region)
    /\ out.s.hovered_region = None

\* The point of call k is on no handle, in no edge zone and not inside the
\* rect of the Selection s, or s has no rect: hit_test yields Creating there
YieldsCreating(s, k) ==
    \/ ~IsSome(s.rect)
    \/ LET n == Normalized(Unwrap(s.rect))
           x == arg.calls[k].x
           y == arg.calls[k].y
       IN  /\ \A c \in Corners : ~InCornerSquare(n, c, x, y)
           /\ \A e \in Midpoints : ~InEdgeZone(n, e, x, y)
           /\ ~InsideRect(n, x, y)

\* C29: start_drag(x, y) where hit_test yields Creating sets rect to
\* Rect(x, y, 0, 0) at once, replacing any finalized selection, while
\* drag_start_rect keeps the previous rect; where hit_test yields Moving or
\* Resizing, rect is left unchanged.
C29_StartDragMaterializes ==
    arg.fn = "calls" =>
        \A k \in AppliedCalls("start_drag") :
            IF YieldsCreating(Before(k), k)
            THEN /\ out.log[k].drag_mode = Creating
                 /\ out.log[k].rect = Some(Rect(arg.calls[k].x, arg.calls[k].y, 0, 0))
                 /\ out.log[k].drag_start_rect = Before(k).rect
            ELSE /\ out.log[k].drag_mode.kind \in {"Moving", "Resizing"}
                 /\ out.log[k].rect = Before(k).rect

\* C29 witness: a press outside a finalized selection has replaced it with the
\* empty rect at the press point, and drag_start_rect holds the selection.
C29_Witness ==
    /\ arg.fn = "calls"
    /\ Applied = 1
    /\ arg.calls[1].op = "start_drag"
    /\ arg.rect = Some(Rect(0, 0, Px(20), Px(20)))
    /\ out.s.drag_mode = Creating
    /\ out.s.rect = Some(Rect(arg.calls[1].x, arg.calls[1].y, 0, 0))
    /\ out.s.drag_start_rect = arg.rect

\* A press inside the selection and a press on a handle leave the rect alone
C29_WitnessMoving ==
    /\ arg.fn = "calls"
    /\ Applied = 1
    /\ arg.calls[1].op = "start_drag"
    /\ IsSome(arg.rect)
    /\ out.s.drag_mode = Moving
    /\ out.s.rect = arg.rect

\* C30: between start_drag and end_drag no update_drag changes drag_mode,
\* drag_start or drag_start_rect, even when a corner or an edge is dragged
\* past the opposite side, which shows only as a normalized rect; and
\* update_drag with drag_mode None changes nothing at all.
C30_AnchorKeptInDrag ==
    arg.fn = "calls" =>
        \A k \in AppliedCalls("update_drag") :
            /\ out.log[k] = [Before(k) EXCEPT !.rect = out.log[k].rect]
            /\ Before(k).drag_mode = DragNone => out.log[k] = Before(k)
            /\ (Before(k).drag_mode.kind = "Resizing" /\ IsSome(out.log[k].rect)) =>
                  /\ Unwrap(out.log[k].rect).width >= 0
                  /\ Unwrap(out.log[k].rect).height >= 0

\* The update k of a resize takes the grabbed side past the opposite one
Crossed(k) ==
    /\ Before(k).drag_mode.kind = "Resizing"
    /\ IsSome(Before(k).drag_start_rect)
    /\ LET t == ResizeTransform(Unwrap(Before(k).drag_start_rect), Before(k).drag_mode.edge,
                                arg.calls[k].x - Before(k).drag_start[1],
                                arg.calls[k].y - Before(k).drag_start[2])
       IN  t.width < 0 \/ t.height < 0

\* C30 witness: a corner has been dragged past the opposite corner; the mode
\* is still the resize of that corner, the bookkeeping is as at the start and
\* the rect has changed.
C30_Witness ==
    /\ arg.fn = "calls"
    /\ Applied = 2
    /\ arg.calls[2].op = "update_drag"
    /\ Crossed(2)
    /\ out.s.drag_mode = out.log[1].drag_mode
    /\ out.s.drag_mode.edge \in Corners
    /\ out.s.drag_start = out.log[1].drag_start
    /\ out.s.drag_start_rect = out.log[1].drag_start_rect
    /\ out.s.rect # out.log[1].rect

\* An update outside any drag, on a Selection with a rect, has changed nothing
C30_WitnessNoDrag ==
    /\ arg.fn = "calls"
    /\ Applied = 1
    /\ arg.calls[1].op = "update_drag"
    /\ IsSome(arg.rect)
    /\ out.s = CallsStart(arg)

\* C31: once rect is present no predefined region is drawn or highlighted, a
\* press never selects a predefined region, and a hover move never forces the
\* "pointer" cursor but requests the one of cursor_for_position, while
\* hovered_region is still refreshed by every hover move; while rect is absent
\* and the pointer hovers a predefined region, the cursor is "pointer".
C31_HoverOnlyWithoutRect ==
    LET under == RegionsUnder(selection, <<cursor_x, cursor_y>>)
    IN  /\ IsSome(selection.rect) => SnapshotPredefinedRegions(selection) = << >>
        /\ ev = "press_region" => ~IsSome(pre)
        /\ ev = "motion" => (IsSome(selection.hovered_region) <=> under # {})
        /\ (ev = "motion" /\ IsSome(selection.rect)) =>
              /\ cursor_log.requested # Some("pointer")
              /\ current_cursor # "pointer"
              /\ cursor_log.requested
                    = Some(CursorForPosition(selection, cursor_x, cursor_y))
        /\ (ev = "motion" /\ ~IsSome(selection.rect) /\ under # {}) =>
              /\ cursor_log.requested = Some("pointer")
              /\ current_cursor = "pointer"
              /\ \E i \in 1 .. Len(SnapshotPredefinedRegions(selection)) :
                    SnapshotPredefinedRegions(selection)[i].is_hovered

\* C31 witness: with a rect present, a hover move over a predefined region
\* has refreshed hovered_region and the cursor is not "pointer".
C31_Witness ==
    /\ ev = "motion"
    /\ IsSome(selection.rect)
    /\ selection.drag_mode = DragNone
    /\ IsSome(selection.hovered_region)
    /\ cursor_log.requested \in {Some("grab"), Some("crosshair")}

\* Without a rect, a hover move over a region has set the "pointer" cursor
C31_WitnessPointer ==
    /\ ev = "motion"
    /\ ~IsSome(selection.rect)
    /\ selection.hovered_region = Some(0)
    /\ cursor_log.calls = <<"pointer">>

\* C32: no event sets rect back to absent: a rect that is present stays
\* present, every press, region selection, drag-update, release and
\* select-all leaves a rect, a region is selected only by a press that found
\* no rect, and every notification carries a crop region.
C32_RectPresenceMonotone ==
    [][/\ IsSome(selection.rect) => IsSome(selection'.rect)
       /\ ev' \in {"press", "press_region", "update", "release", "click", "click_region",
                  "select_all"}
             => IsSome(selection'.rect)
       /\ (PressStep /\ ev' = "press_region") => ~IsSome(selection.rect)
       /\ (PressStep /\ IsSome(selection.rect)) => ev' = "press"
       /\ Len(notified') = 1 => IsSome(notified'[1])]_vars

\* C32 witness: the session began with a click on no region, which has left a
\* rect; the click was notified with its crop region.
C32_Witness ==
    /\ ev = "click"
    /\ ~IsSome(pre)
    /\ selection.predefined_regions = << >>
    /\ IsSome(selection.rect)
    /\ Len(notified) = 1
    /\ IsSome(notified[1])

\* C33: on a screen of at least 20x20, after every end_drag that leaves a rect
\* has_valid_selection() is true; a click (start_drag then end_drag) where
\* hit_test yields Creating leaves a 20x20 selection whose origin is the press
\* point, shifted left and up only as far as the screen requires, whatever
\* selection there was before.
C33_EndDragLeavesValid ==
    (arg.fn = "calls" /\ arg.screen_width >= Px(20) /\ arg.screen_height >= Px(20)) =>
        \A k \in AppliedCalls("end_drag") :
            /\ IsSome(out.log[k].rect) =>
                  /\ Abs(Unwrap(out.log[k].rect).width) >= Px(20)
                  /\ Abs(Unwrap(out.log[k].rect).height) >= Px(20)
            /\ (/\ k > 1
                /\ arg.calls[k - 1].op = "start_drag"
                /\ YieldsCreating(Before(k - 1), k - 1)) =>
                  out.log[k].rect =
                      Some(Rect(Min(arg.calls[k - 1].x, arg.screen_width - Px(20)),
                                Min(arg.calls[k - 1].y, arg.screen_height - Px(20)),
                                Px(20), Px(20)))

\* C33 witness: a click outside a finalized selection, nearer than 20 to the
\* right and bottom of the screen, has replaced it with a 20x20 selection
\* shifted to end at the screen's corner.
C33_Witness ==
    /\ ClickApplied
    /\ arg.rect = Some(Rect(0, 0, Px(20), Px(20)))
    /\ out.log[1].drag_mode = Creating
    /\ CallPoint(1)[1] > arg.screen_width - Px(20)
    /\ CallPoint(1)[2] > arg.screen_height - Px(20)
    /\ out.s.rect = Some(Rect(arg.screen_width - Px(20), arg.screen_height - Px(20),
                              Px(20), Px(20)))

\* A click with room to spare leaves the 20x20 selection at the press point
C33_WitnessInPlace ==
    /\ ClickApplied
    /\ ~IsSome(arg.rect)
    /\ CallPoint(1)[1] > 0
    /\ out.s.rect = Some(Rect(CallPoint(1)[1], CallPoint(1)[2], Px(20), Px(20)))

\* C34: the release that follows a press which selected a predefined region
\* runs end_drag: the rect becomes the normalized and constrained region, at
\* least MIN_SIZE wide and high and inside the screen, and the callback is
\* called with the crop region of that rect, not with the one of the press.
C34_RegionClickConstrained ==
    [][(ev = "press_region" /\ ReleaseStep) =>
          LET region == Unwrap(selection.rect)
              after  == Unwrap(selection'.rect)
          IN  /\ IsSome(selection'.rect)
              /\ after = Constrain(Normalized(region), selection.screen_width,
                                   selection.screen_height)
              /\ Finalized(after, selection.screen_width, selection.screen_height)
              /\ Len(notified') = 1
              /\ IsCropOf(notified'[1], after.x, after.y, after.width, after.height)
              /\ after # region => notified' # notified]_vars

\* C34 witness: the click on the undersized region is complete; the rect has
\* grown to 20x20 and is none of the regions, and the release was notified
\* with it.
C34_Witness ==
    /\ ev = "click_region"
    /\ ~IsSome(pre)
    /\ selection.rect = Some(Rect(Px(10), Px(10), Px(20), Px(20)))
    /\ \A i \in 1 .. Len(selection.predefined_regions) :
          selection.rect # Some(selection.predefined_regions[i])
    /\ notified = <<Some(<<10, 10, 20, 20>>)>>

\* Call k directly follows a select-all made while a drag was in progress
AfterSelectAllInDrag(k) ==
    /\ k > 1
    /\ arg.calls[k - 1].op = "select_all"
    /\ Before(k - 1).drag_mode # DragNone

FullCanvas == Some(Rect(0, 0, arg.screen_width, arg.screen_height))

\* C35: a select-all issued while a drag is in progress does not survive it:
\* the next update_drag leaves the rect it would have left without the
\* select-all, computed from drag_start and drag_start_rect; if the release
\* comes first, end_drag leaves the full-canvas rect.
C35_SelectAllInDragDiscarded ==
    arg.fn = "calls" =>
        /\ \A k \in AppliedCalls("update_drag") :
              AfterSelectAllInDrag(k) =>
                 /\ Before(k).rect = FullCanvas
                 /\ out.log[k].rect
                       = UpdateDrag(Before(k - 1), arg.calls[k].x, arg.calls[k].y).rect
                 /\ Before(k).drag_mode = Creating =>
                       out.log[k].rect
                          = Some(Rect(Before(k).drag_start[1], Before(k).drag_start[2],
                                      arg.calls[k].x - Before(k).drag_start[1],
                                      arg.calls[k].y - Before(k).drag_start[2]))
        /\ \A k \in AppliedCalls("end_drag") :
              AfterSelectAllInDrag(k) => out.log[k].rect = FullCanvas

\* C35 witness: select-all came in the middle of a move; the next update has
\* put the moved selection back and the release has kept it.
C35_Witness ==
    /\ arg.fn = "calls"
    /\ Ops(arg.calls) = <<"start_drag", "select_all", "update_drag", "end_drag">>
    /\ Applied = 4
    /\ out.log[1].drag_mode = Moving
    /\ out.log[2].rect = FullCanvas
    /\ out.log[3].rect # FullCanvas
    /\ out.log[3].rect # out.log[1].rect
    /\ Unwrap(out.log[3].rect).width = Unwrap(out.log[1].rect).width
    /\ out.s.rect = out.log[3].rect

\* Select-all in the middle of a creation, then the release: the whole
\* canvas is selected
C35_WitnessKept ==
    /\ arg.fn = "calls"
    /\ Ops(arg.calls) = <<"start_drag", "select_all", "end_drag">>
    /\ Applied = 3
    /\ out.log[1].drag_mode = Creating
    /\ out.log[1].rect # FullCanvas
    /\ out.s.rect = FullCanvas

\* v brought into [lo, hi]
Clamped(v, lo, hi) == IF v < lo THEN lo ELSE IF v > hi THEN hi ELSE v

\* Update k is one of a Moving drag that began on a finalized rect
MovingFinalized(k) ==
    /\ Before(k).drag_mode = Moving
    /\ IsSome(Before(k).drag_start_rect)
    /\ Finalized(Unwrap(Before(k).drag_start_rect), arg.screen_width, arg.screen_height)

\* The origin of the rect of the drag, translated by the pointer's way since the press
Translated(k) ==
    <<Unwrap(Before(k).drag_start_rect).x + arg.calls[k].x - Before(k).drag_start[1],
      Unwrap(Before(k).drag_start_rect).y + arg.calls[k].y - Before(k).drag_start[2]>>

\* C36: in a Moving drag whose drag_start_rect is finalized, after every
\* update_drag the rect has exactly the width and height of drag_start_rect
\* and its origin is the translated origin clamped into
\* [0, screen_width - width] x [0, screen_height - height].
C36_MovingPreservesSize ==
    arg.fn = "calls" =>
        \A k \in AppliedCalls("update_drag") :
            MovingFinalized(k) =>
                LET start == Unwrap(Before(k).drag_start_rect)
                IN  out.log[k].rect =
                        Some(Rect(Clamped(Translated(k)[1], 0, arg.screen_width - start.width),
                                  Clamped(Translated(k)[2], 0, arg.screen_height - start.height),
                                  start.width, start.height))

\* C36 witness: the move would take the rect over the right and bottom edges
\* of the screen; it has stopped at them with its size kept.
C36_Witness ==
    /\ arg.fn = "calls"
    /\ Applied >= 2
    /\ arg.calls[2].op = "update_drag"
    /\ MovingFinalized(2)
    /\ LET start == Unwrap(out.log[1].drag_start_rect)
           now   == Unwrap(out.log[2].rect)
       IN  /\ Translated(2)[1] + start.width > arg.screen_width
           /\ Translated(2)[2] + start.height > arg.screen_height
           /\ now.x + now.width = arg.screen_width
           /\ now.y + now.height = arg.screen_height
           /\ now.width = start.width
           /\ now.height = start.height
           /\ now.x # start.x

\* Update k is one of a Moving or Resizing drag
MovingOrResizing(k) == Before(k).drag_mode.kind \in {"Moving", "Resizing"}

\* C37: on a screen of at least 20x20, in a Moving or Resizing drag the rect
\* after every update_drag already lies inside the screen and is at least
\* MIN_SIZE wide and high, and the end_drag that closes the drag after it
\* leaves the rect unchanged.
C37_LiveRectFinalized ==
    (arg.fn = "calls" /\ arg.screen_width >= Px(20) /\ arg.screen_height >= Px(20)) =>
        /\ \A k \in AppliedCalls("update_drag") :
              MovingOrResizing(k) =>
                 /\ IsSome(out.log[k].rect)
                 /\ Finalized(Unwrap(out.log[k].rect), arg.screen_width, arg.screen_height)
        /\ \A k \in AppliedCalls("end_drag") :
              (k > 1 /\ arg.calls[k - 1].op = "update_drag" /\ MovingOrResizing(k - 1)) =>
                 out.log[k].rect = out.log[k - 1].rect

\* C37 witness: a resize has taken the grabbed corner past the opposite
\* corner and off the screen; the live rect is finalized all the same and the
\* release has kept it.
C37_Witness ==
    /\ arg.fn = "calls"
    /\ Ops(arg.calls) = <<"start_drag", "update_drag", "end_drag">>
    /\ Applied = 3
    /\ Crossed(2)
    /\ ~Finalized(Normalized(ResizeTransform(Unwrap(out.log[1].drag_start_rect),
                                             out.log[1].drag_mode.edge,
                                             arg.calls[2].x - out.log[1].drag_start[1],
                                             arg.calls[2].y - out.log[1].drag_start[2])),
                  arg.screen_width, arg.screen_height)
    /\ Finalized(Unwrap(out.log[2].rect), arg.screen_width, arg.screen_height)
    /\ out.s.rect = out.log[2].rect

\* A creation under way shows a rect of negative size, which the release normalizes
C37_WitnessCreating ==
    /\ arg.fn = "calls"
    /\ Ops(arg.calls) = <<"start_drag", "update_drag", "end_drag">>
    /\ Applied = 3
    /\ out.log[1].drag_mode = Creating
    /\ Unwrap(out.log[2].rect).width < 0
    /\ out.s.rect # out.log[2].rect

\* The running handler is about to apply the cursor, queue a redraw or
\* invoke the change callback
AtCallOut == AtStep("set_cursor") \/ AtStep("queue_draw") \/ AtStep("callback")

\* C38: in every handler the mutable borrow of the Selection is released
\* before the cursor is applied, a redraw is queued or the change callback is
\* invoked; no borrow is ever refused, and notify_selection_change and the
\* render pass read the Selection only when no mutation is under way, for any
\* order of events.
C38_BorrowReleasedBeforeCallOut ==
    arg.fn = "borrows" =>
        /\ ~out.panicked
        /\ AtCallOut => (~out.writer /\ out.readers = 0 /\ ~out.mutated)
        /\ out.readers > 0 => (~out.writer /\ ~out.mutated)
        /\ out.handler = "idle" => (~out.writer /\ out.readers = 0)
        /\ out.readers <= 1

\* C38 witness: a drag-update has mutated the Selection, dropped its borrow
\* and queued a redraw, and is in its change notification, reading the
\* Selection through a borrow of its own.
C38_Witness ==
    /\ arg.fn = "borrows"
    /\ out.handler = "drag_update"
    /\ AtStep("read")
    /\ out.readers = 1
    /\ ~out.writer
    /\ out.draw_queued

\* The redraw queued by select-all is being rendered
C38_WitnessRender ==
    /\ arg.fn = "borrows"
    /\ out.handler = "snapshot"
    /\ out.readers = 1
    /\ out.pressed

CropDone == arg.fn = "crop" /\ IsSome(out)

\* The span from origin of the given size lies inside 0 .. limit with positive size
SpanInside(origin, size, limit) ==
    /\ 0 <= origin
    /\ origin <= limit - 1
    /\ size >= 1
    /\ size <= limit - origin

\* The requested rectangle lies inside the image with positive size
RequestInside ==
    /\ SpanInside(arg.x, arg.width, arg.image.width)
    /\ SpanInside(arg.y, arg.height, arg.image.height)

\* C39: for every (x, y, width, height), negative, zero and oversized values
\* included, and every image of at least 1x1, the sub-rectangle crop takes
\* has its origin inside the image, a size of at least 1 on both axes and
\* ends inside the image; it is the requested rectangle whenever that lies
\* inside the image with positive size.
C39_CropInsideImage ==
    CropDone =>
        LET c == Unwrap(out)
        IN  /\ 0 <= c.x /\ c.x <= arg.image.width - 1
            /\ 0 <= c.y /\ c.y <= arg.image.height - 1
            /\ c.width >= 1 /\ c.height >= 1
            /\ c.x + c.width <= arg.image.width
            /\ c.y + c.height <= arg.image.height
            /\ RequestInside =>
                   c = [x |-> arg.x, y |-> arg.y,
                        width |-> arg.width, height |-> arg.height]

\* C39 witness: a request left of the image with a zero width and an
\* oversized height is cropped to one column inside the image.
C39_Witness ==
    /\ CropDone
    /\ arg.x < 0
    /\ arg.width = 0
    /\ arg.height > arg.image.height
    /\ Unwrap(out).x = 0
    /\ Unwrap(out).width = 1
    /\ Unwrap(out).height = arg.image.height - Unwrap(out).y

\* A request inside the image, smaller than the image, is cropped as asked
C39_WitnessInside ==
    /\ CropDone
    /\ RequestInside
    /\ arg.x > 0
    /\ arg.width < arg.image.width
    /\ Unwrap(out).x = arg.x
    /\ Unwrap(out).width = arg.width

\* The extreme i32 values are cropped to the image's last pixel
C39_WitnessExtremes ==
    /\ CropDone
    /\ arg.x = I32Max /\ arg.y = I32Max
    /\ arg.width = I32Min /\ arg.height = I32Max
    /\ Unwrap(out) = [x |-> arg.image.width - 1, y |-> arg.image.height - 1,
                      width |-> 1, height |-> 1]

====
